---- MODULE Spec2Model ----
(***************************************************************************)
(* Model of the analytics pipeline of the sales dashboard: the event       *)
(* deriver and rate engine (src/data/transforms.ts), the funnel builder    *)
(* and CSV codec (src/utils/summaries, held in src/tabs/PipelineHealth.tsx *)
(* lines 864-1801, and src/tabs/NoShow.tsx) and the seeded dataset         *)
(* generator (src/data/generator, held in src/unnamed/part_006).           *)
(*                                                                         *)
(* Conventions.  A nullable value is a sequence: Null is <<>> and a        *)
(* present value v is <<v>>.  A JavaScript number that results from a      *)
(* division is kept as the exact fraction [num, den] in lowest terms.      *)
(* An ISO-8601 timestamp string is the record [day, ms]: the UTC calendar  *)
(* day counted from the generator's anchor 2024-01-08 and the millisecond  *)
(* within that day.                                                        *)
(***************************************************************************)
EXTENDS Integers, Sequences, FiniteSets, TLC

VARIABLES
  events,          \* the OutreachEvent[] array held by the caller
  derivedEvents,   \* the DerivedEvent[] returned by deriveEvents
  summaries,       \* the rates and funnels computed from derivedEvents
  csv,             \* the text written by serializeDashboardCsv
  parsed,          \* what parseDashboardCsv returned or threw for csv
  TEAM_NAMES,      \* the generator module's array of team names
  INDUSTRY_POOL,   \* the generator module's array of industry profiles
  frame,           \* the locals of the running generateDataset call, or
                   \* the arguments and the result of a pickWeighted call
  returned,        \* the datasets generateDataset has returned, in order,
                   \* or the arguments of the pickWeighted call that returned
  view,            \* what the Pipeline Health tab computed at its last render
  file,            \* the table of the file chosen for import and not read
                   \* yet, Null for none
  store,           \* the state of the store, Null before its constructor ran
  toast,           \* the toast shown last, Null for none
  caller,          \* what called the running generateDataset and awaits its
                   \* return: "constructor" or "reseed", or "none"
  tabs,            \* the ids of the tabs prop of the Tabs component
  defaultTab,      \* its defaultTab prop
  activeTab,       \* its activeTab state, Null before it is mounted
  hash,            \* window.location.hash
  series,          \* the series of the Connect->Conversation trends tab
  selectedSdrs,    \* its selectedSdrs state
  pc               \* position of the pipeline: "input", then "derived",
                   \* "summarised", or "exported", "imported"; of the
                   \* generator: "idle" or the statement to run next; of
                   \* a component: "idle", or the event or effect pending

pipelineVars == <<events, derivedEvents, summaries, csv, parsed>>

generatorVars == <<TEAM_NAMES, INDUSTRY_POOL, frame, returned>>

uiVars == <<tabs, defaultTab, activeTab, hash, series, selectedSdrs>>

appVars == <<view, file, store, toast, caller, uiVars>>

vars == <<pipelineVars, generatorVars, appVars, pc>>

\* ------------------------------------------------------------------ values

Null == <<>>
Some(v) == <<v>>

RECURSIVE Gcd(_, _)
Gcd(a, b) == IF b = 0 THEN a ELSE Gcd(b, a % b)

\* The JavaScript quotient n / d of two integers, d > 0, n >= 0 or n < 0.
Divide(n, d) ==
  LET g == Gcd(IF n < 0 THEN -n ELSE n, d)
  IN  [num |-> n \div g, den |-> d \div g]

\* x + y, x * y and x / y on fractions
Plus(x, y) == Divide(x.num * y.den + y.num * x.den, x.den * y.den)

Times(x, y) == Divide(x.num * y.num, x.den * y.den)

Over(x, y) == Divide(x.num * y.den, x.den * y.num)

\* Object spread {...a, ...b}: the keys of both, b's value where both have one.
Spread(a, b) ==
  [k \in (DOMAIN a) \cup (DOMAIN b) |-> IF k \in DOMAIN b THEN b[k] ELSE a[k]]

\* ------------------------------------------------------------------ types

Channels == {"call", "email", "linkedin"}

Outcomes ==
  {"no_answer", "voicemail", "connected", "conversation",
   "meeting_booked", "meeting_held", "no_show", "qualified"}

OutreachEventFields ==
  {"event_id", "lead_id", "timestamp", "week_start", "sdr_id", "sdr_name",
   "team", "company", "industry", "channel", "outcome", "objection"}

MS_PER_DAY == 86400000

\* new Date(timestamp).getTime(), in milliseconds since the anchor day.
getTime(timestamp) == timestamp.day * MS_PER_DAY + timestamp.ms

\* ------------------------------------------------------------- transforms

OUTCOME_FLAG_MAP ==
  [no_answer |->
     [is_connected |-> FALSE, is_conversation |-> FALSE, is_meeting_booked |-> FALSE,
      is_meeting_held |-> FALSE, is_qualified |-> FALSE, is_no_show |-> FALSE,
      is_dial |-> TRUE],
   voicemail |->
     [is_connected |-> FALSE, is_conversation |-> FALSE, is_meeting_booked |-> FALSE,
      is_meeting_held |-> FALSE, is_qualified |-> FALSE, is_no_show |-> FALSE,
      is_dial |-> TRUE],
   connected |->
     [is_connected |-> TRUE, is_conversation |-> FALSE, is_meeting_booked |-> FALSE,
      is_meeting_held |-> FALSE, is_qualified |-> FALSE, is_no_show |-> FALSE,
      is_dial |-> TRUE],
   conversation |->
     [is_connected |-> TRUE, is_conversation |-> TRUE, is_meeting_booked |-> FALSE,
      is_meeting_held |-> FALSE, is_qualified |-> FALSE, is_no_show |-> FALSE,
      is_dial |-> TRUE],
   meeting_booked |->
     [is_connected |-> TRUE, is_conversation |-> TRUE, is_meeting_booked |-> TRUE,
      is_meeting_held |-> FALSE, is_qualified |-> FALSE, is_no_show |-> FALSE,
      is_dial |-> TRUE],
   meeting_held |->
     [is_connected |-> TRUE, is_conversation |-> TRUE, is_meeting_booked |-> TRUE,
      is_meeting_held |-> TRUE, is_qualified |-> FALSE, is_no_show |-> FALSE,
      is_dial |-> TRUE],
   no_show |->
     [is_connected |-> TRUE, is_conversation |-> TRUE, is_meeting_booked |-> TRUE,
      is_meeting_held |-> FALSE, is_qualified |-> FALSE, is_no_show |-> TRUE,
      is_dial |-> TRUE],
   qualified |->
     [is_connected |-> TRUE, is_conversation |-> TRUE, is_meeting_booked |-> TRUE,
      is_meeting_held |-> TRUE, is_qualified |-> TRUE, is_no_show |-> FALSE,
      is_dial |-> TRUE]]

\* Mutant: the no_show row is read as the meeting_held row.
deriveOutcomeFlagsNoShowHeld(event) ==
  Spread(OUTCOME_FLAG_MAP[IF event.outcome = "no_show" THEN "meeting_held"
                          ELSE event.outcome],
         [is_dial |-> event.channel = "call"])

deriveOutcomeFlags(event) ==
  Spread(OUTCOME_FLAG_MAP[event.outcome], [is_dial |-> event.channel = "call"])

\* Mutant: an unstable sort, which puts an event before the events of equal time.
RECURSIVE InsertByTimeUnstable(_, _)
InsertByTimeUnstable(sorted, event) ==
  IF sorted = <<>> THEN <<event>>
  ELSE IF getTime(Head(sorted).timestamp) - getTime(event.timestamp) >= 0
       THEN <<event>> \o sorted
       ELSE <<Head(sorted)>> \o InsertByTimeUnstable(Tail(sorted), event)

\* Mutant: the working copy is left in input order.
SortByTimestampNone(list) == list

\* Array.prototype.sort with the comparator a.time - b.time: a stable sort
\* (ECMAScript 2019), here by insertion behind every element that is not later.
RECURSIVE InsertByTime(_, _)
InsertByTime(sorted, event) ==
  IF sorted = <<>> THEN <<event>>
  ELSE IF getTime(Head(sorted).timestamp) - getTime(event.timestamp) > 0
       THEN <<event>> \o sorted
       ELSE <<Head(sorted)>> \o InsertByTime(Tail(sorted), event)

RECURSIVE SortByTimestamp(_)
SortByTimestamp(list) ==
  IF list = <<>> THEN <<>>
  ELSE InsertByTime(SortByTimestamp(SubSeq(list, 1, Len(list) - 1)), list[Len(list)])

\* Mutant: events.sort(...) without the copy, which reorders the caller's array.
SortedCopyInPlace(list) ==
  [input |-> SortByTimestamp(list), sorted |-> SortByTimestamp(list)]

\* const sortedEvents = [...events].sort(...): the caller's array after the
\* statement (input) and the sorted working copy (sorted).
SortedCopy(list) == [input |-> list, sorted |-> SortByTimestamp(list)]

\* The four Maps filled by sortedEvents.forEach: each is a function whose
\* domain is the set of leads that have an entry.
EmptyAttribution ==
  [firstContactEventIdByLead |-> <<>>, firstContactTimeByLead |-> <<>>,
   firstMeetingEventIdByLead |-> <<>>, firstMeetingTimeByLead |-> <<>>]

MapSet(map, key, value) ==
  [k \in (DOMAIN map) \cup {key} |-> IF k = key THEN value ELSE map[k]]

MapHas(map, key) == key \in DOMAIN map

\* map.get(key) ?? null
MapGet(map, key) == IF key \in DOMAIN map THEN Some(map[key]) ELSE Null

isMeetingOutcome(flags) ==
  flags.is_meeting_booked \/ flags.is_meeting_held \/ flags.is_qualified

RecordEvent(acc, event) ==
  LET lead == event.lead_id
      eventTime == getTime(event.timestamp)
      contact ==
        IF ~MapHas(acc.firstContactEventIdByLead, lead)
        THEN [acc EXCEPT
                !.firstContactEventIdByLead = MapSet(@, lead, event.event_id),
                !.firstContactTimeByLead = MapSet(@, lead, eventTime)]
        ELSE acc
      flags == deriveOutcomeFlags(event)
  IN  IF isMeetingOutcome(flags) /\ ~MapHas(contact.firstMeetingEventIdByLead, lead)
      THEN [contact EXCEPT
              !.firstMeetingEventIdByLead = MapSet(@, lead, event.event_id),
              !.firstMeetingTimeByLead = MapSet(@, lead, eventTime)]
      ELSE contact

RECURSIVE Attribute(_, _)
Attribute(acc, sortedEvents) ==
  IF sortedEvents = <<>> THEN acc
  ELSE Attribute(RecordEvent(acc, Head(sortedEvents)), Tail(sortedEvents))

\* Mutant: the first contact and the first meeting are told by their time.
DeriveOneByTime(maps, event) ==
  LET flags == deriveOutcomeFlags(event)
      lead == event.lead_id
      eventTime == getTime(event.timestamp)
      firstContactTime == MapGet(maps.firstContactTimeByLead, lead)
      firstMeetingTime == MapGet(maps.firstMeetingTimeByLead, lead)
      isFirstMeeting == isMeetingOutcome(flags) /\ firstMeetingTime = Some(eventTime)
  IN  Spread(Spread(event, flags),
             [is_first_contact |-> firstContactTime = Some(eventTime),
              time_to_meeting_days |->
                IF isFirstMeeting
                THEN Some(Divide(firstMeetingTime[1] - firstContactTime[1], MS_PER_DAY))
                ELSE Null,
              is_dial |-> event.channel = "call"])

\* The callback of events.map in deriveEvents.
DeriveOne(maps, event) ==
  LET flags == deriveOutcomeFlags(event)
      lead == event.lead_id
      firstContactId == MapGet(maps.firstContactEventIdByLead, lead)
      firstContactTime == MapGet(maps.firstContactTimeByLead, lead)
      firstMeetingEventId == MapGet(maps.firstMeetingEventIdByLead, lead)
      firstMeetingTime == MapGet(maps.firstMeetingTimeByLead, lead)
      isFirstContact == firstContactId = Some(event.event_id)
      isFirstMeeting == firstMeetingEventId = Some(event.event_id)
      timeToMeeting ==
        IF isFirstMeeting /\ firstContactTime # Null /\ firstMeetingTime # Null
        THEN Some(Divide(firstMeetingTime[1] - firstContactTime[1], MS_PER_DAY))
        ELSE Null
  IN  Spread(Spread(event, flags),
             [is_first_contact |-> isFirstContact,
              time_to_meeting_days |-> timeToMeeting,
              is_dial |-> event.channel = "call"])

\* Mutant: the returned events keep the is_dial of the outcome's flags.
deriveEventsCallDialOfOutcome(list) ==
  LET copy == SortedCopy(list)
      maps == Attribute(EmptyAttribution, copy.sorted)
  IN  [events |-> copy.input,
       result |-> [i \in 1..Len(copy.input) |->
                     [DeriveOne(maps, copy.input[i])
                        EXCEPT !.is_dial = OUTCOME_FLAG_MAP[copy.input[i].outcome].is_dial]]]

\* deriveEvents: the caller's array after the call, and the returned array.
deriveEventsCall(list) ==
  LET copy == SortedCopy(list)
      maps == Attribute(EmptyAttribution, copy.sorted)
  IN  [events |-> copy.input,
       result |-> [i \in 1..Len(copy.input) |-> DeriveOne(maps, copy.input[i])]]

deriveEvents(list) == deriveEventsCall(list).result

\* ------------------------------------------------------------ rate engine

\* events.filter(P).length for the flag conjunction named by the set `flags`.
CountWhere(list, flags) ==
  Cardinality({i \in DOMAIN list : \A f \in flags : list[i][f]})

\* Mutant: the null test reads the numerator.
calculateRateByNumerator(numerator, denominator) ==
  [numerator |-> numerator,
   denominator |-> denominator,
   rate |-> IF numerator = 0 THEN Null ELSE Some(Divide(numerator, denominator))]

calculateRate(numerator, denominator) ==
  [numerator |-> numerator,
   denominator |-> denominator,
   rate |-> IF denominator = 0 THEN Null ELSE Some(Divide(numerator, denominator))]

\* The Dial->Connect rate of the mutant below: connects of any channel over
\* dials.
computeDialToConnectRateAnyChannel(list) ==
  calculateRate(CountWhere(list, {"is_connected"}), CountWhere(list, {"is_dial"}))

computeDialToConnectRate(list) ==
  calculateRate(CountWhere(list, {"is_dial", "is_connected"}), CountWhere(list, {"is_dial"}))

computeConnectToConversationRate(list) ==
  calculateRate(CountWhere(list, {"is_conversation"}), CountWhere(list, {"is_connected"}))

computeMeetingToQualifiedRate(list) ==
  calculateRate(CountWhere(list, {"is_qualified"}), CountWhere(list, {"is_meeting_held"}))

\* Mutant: the no-shows are counted over the meetings held.
computeNoShowRateOverHeld(list) ==
  calculateRate(CountWhere(list, {"is_no_show"}), CountWhere(list, {"is_meeting_held"}))

computeNoShowRate(list) ==
  calculateRate(CountWhere(list, {"is_no_show"}), CountWhere(list, {"is_meeting_booked"}))

\* ---------------------------------------------------------------- funnels

\* String.prototype.localeCompare on the names the model uses: the position
\* of a name in the collation order.
CollationOrder ==
  <<"Apex Cloud Retail", "Avery Kim", "Blue Systems Fintech", "Cedar Data Media",
    "Delta Works Energy", "Echo Group Logistics", "Harbor Tech Health",
    "Jordan Lee", "Morgan Diaz", "North Labs SaaS", "Outbound Alpha",
    "Pipeline Pros", "Riley Chen", "sdr_1", "sdr_2", "Taylor Patel">>

CollationRank(name) == CHOOSE i \in DOMAIN CollationOrder : CollationOrder[i] = name

localeCompare(a, b) == CollationRank(a) - CollationRank(b)

STAGE_DEFINITIONS ==
  <<[key |-> "dials", label |-> "Dials"],
    [key |-> "connects", label |-> "Connects"],
    [key |-> "conversations", label |-> "Conversations"],
    [key |-> "meetingsBooked", label |-> "Meetings Booked"],
    [key |-> "meetingsHeld", label |-> "Meetings Held"],
    [key |-> "qualified", label |-> "Qualified"]>>

\* Mutant: the dials stage keeps only the events of the call channel.
StagePredicateDial(key, event) ==
  CASE key = "dials" -> event.is_dial
    [] key = "connects" -> event.is_connected
    [] key = "conversations" -> event.is_conversation
    [] key = "meetingsBooked" -> event.is_meeting_booked
    [] key = "meetingsHeld" -> event.is_meeting_held
    [] key = "qualified" -> event.is_qualified

\* The predicate of each entry of STAGE_DEFINITIONS.
StagePredicate(key, event) ==
  CASE key = "dials" -> TRUE
    [] key = "connects" -> event.is_connected
    [] key = "conversations" -> event.is_conversation
    [] key = "meetingsBooked" -> event.is_meeting_booked
    [] key = "meetingsHeld" -> event.is_meeting_held
    [] key = "qualified" -> event.is_qualified

MAX_ENTITY_COUNT == 5

\* grouped: the Map<string, DerivedEvent[]> in insertion order, as a sequence
\* of [id, events]; ids[i] is getId(list[i]), "" when it is falsy.
GroupAdd(grouped, id, event) ==
  IF id = "" THEN grouped
  ELSE IF \E i \in DOMAIN grouped : grouped[i].id = id
       THEN [i \in DOMAIN grouped |->
               IF grouped[i].id = id
               THEN [grouped[i] EXCEPT !.events = Append(@, event)]
               ELSE grouped[i]]
       ELSE Append(grouped, [id |-> id, events |-> <<event>>])

RECURSIVE GroupEvents(_, _, _)
GroupEvents(grouped, list, ids) ==
  IF list = <<>> THEN grouped
  ELSE GroupEvents(GroupAdd(grouped, Head(ids), Head(list)), Tail(list), Tail(ids))

\* Mutant: the stage counts events instead of distinct leads.
StageCountEvents(key, entityEvents) ==
  Cardinality({j \in DOMAIN entityEvents : StagePredicate(key, entityEvents[j])})

\* leads.size after entityEvents.forEach(event => predicate(event) && leads.add(lead_id))
StageCount(key, entityEvents) ==
  Cardinality({entityEvents[i].lead_id :
                 i \in {j \in DOMAIN entityEvents : StagePredicate(key, entityEvents[j])}})

StagesOf(entityEvents) ==
  [s \in DOMAIN STAGE_DEFINITIONS |->
     [key |-> STAGE_DEFINITIONS[s].key,
      label |-> STAGE_DEFINITIONS[s].label,
      count |-> StageCount(STAGE_DEFINITIONS[s].key, entityEvents)]]

\* Mutant: the comparator skips the first-stage count.
CompareFunnelsQualifiedThenName(a, b) ==
  LET aQualified == a.stages[Len(a.stages)].count
      bQualified == b.stages[Len(b.stages)].count
  IN  IF bQualified # aQualified THEN bQualified - aQualified
      ELSE localeCompare(a.name, b.name)

\* The comparator of funnels.sort: negative when a sorts before b.
CompareFunnels(a, b) ==
  LET aQualified == a.stages[Len(a.stages)].count
      bQualified == b.stages[Len(b.stages)].count
      aFirst == a.stages[1].count
      bFirst == b.stages[1].count
  IN  IF bQualified # aQualified THEN bQualified - aQualified
      ELSE IF bFirst # aFirst THEN bFirst - aFirst
      ELSE localeCompare(a.name, b.name)

RECURSIVE InsertFunnel(_, _)
InsertFunnel(sorted, funnel) ==
  IF sorted = <<>> THEN <<funnel>>
  ELSE IF CompareFunnels(Head(sorted), funnel) > 0
       THEN <<funnel>> \o sorted
       ELSE <<Head(sorted)>> \o InsertFunnel(Tail(sorted), funnel)

RECURSIVE SortFunnels(_)
SortFunnels(list) ==
  IF list = <<>> THEN <<>>
  ELSE InsertFunnel(SortFunnels(SubSeq(list, 1, Len(list) - 1)), list[Len(list)])

Slice(list, n) == SubSeq(list, 1, IF Len(list) < n THEN Len(list) ELSE n)

\* dataset.sdrs of the datasets the model summarises.
DatasetSdrs ==
  <<[id |-> "sdr_1", name |-> "Jordan Lee", team |-> "Outbound Alpha"],
    [id |-> "sdr_2", name |-> "Taylor Patel", team |-> "Pipeline Pros"]>>

\* The getId and getName arguments of the three call sites: grouping is
\* "company", "team" or "sdr".  A falsy id is "".
CompanyOf(event) == event.company
TeamOf(event) == event.team
SdrIdOf(event) == event.sdr_id
IdAsName(id, sample) == id

\* sdrNameLookup.get(id) ?? sample?.sdr_name ?? id
SdrName(id, sample) ==
  IF \E i \in DOMAIN DatasetSdrs : DatasetSdrs[i].id = id
  THEN DatasetSdrs[CHOOSE i \in DOMAIN DatasetSdrs : DatasetSdrs[i].id = id].name
  ELSE sample.sdr_name

getId(grouping, event) ==
  CASE grouping = "company" -> CompanyOf(event)
    [] grouping = "team" -> TeamOf(event)
    [] grouping = "sdr" -> SdrIdOf(event)

getName(grouping, id, sample) ==
  CASE grouping = "company" -> IdAsName(id, sample)
    [] grouping = "team" -> IdAsName(id, sample)
    [] grouping = "sdr" -> SdrName(id, sample)

buildFunnels(list, grouping) ==
  LET ids == [i \in DOMAIN list |-> getId(grouping, list[i])]
      grouped == GroupEvents(<<>>, list, ids)
      funnels ==
        [g \in DOMAIN grouped |->
           [id |-> grouped[g].id,
            name |-> getName(grouping, grouped[g].id, grouped[g].events[1]),
            stages |-> StagesOf(grouped[g].events)]]
  IN  Slice(SortFunnels(funnels), MAX_ENTITY_COUNT)

\* ------------------------------------------------- NoShow.tsx (Funnels tab)

FUNNEL_STAGE_DEFINITIONS ==
  <<[key |-> "dials", label |-> "Dials"],
    [key |-> "connects", label |-> "Connects"],
    [key |-> "conversations", label |-> "Conversations"],
    [key |-> "meetingsBooked", label |-> "Meetings Booked"],
    [key |-> "meetingsHeld", label |-> "Meetings Held"],
    [key |-> "qualified", label |-> "Qualified"]>>

EntityStagePredicate(key, event) ==
  CASE key = "dials" -> TRUE
    [] key = "connects" -> event.is_connected
    [] key = "conversations" -> event.is_conversation
    [] key = "meetingsBooked" -> event.is_meeting_booked
    [] key = "meetingsHeld" -> event.is_meeting_held
    [] key = "qualified" -> event.is_qualified

MAX_ENTITIES == 5

EntityStagesOf(entityEvents) ==
  [s \in DOMAIN FUNNEL_STAGE_DEFINITIONS |->
     [key |-> FUNNEL_STAGE_DEFINITIONS[s].key,
      label |-> FUNNEL_STAGE_DEFINITIONS[s].label,
      count |->
        Cardinality({entityEvents[i].lead_id :
                       i \in {j \in DOMAIN entityEvents :
                                EntityStagePredicate(FUNNEL_STAGE_DEFINITIONS[s].key,
                                                     entityEvents[j])}})]]

buildEntityFunnels(list, grouping) ==
  LET ids == [i \in DOMAIN list |-> getId(grouping, list[i])]
      grouped == GroupEvents(<<>>, list, ids)
      funnels ==
        [g \in DOMAIN grouped |->
           [id |-> grouped[g].id,
            name |-> getName(grouping, grouped[g].id, grouped[g].events[1]),
            stages |-> EntityStagesOf(grouped[g].events)]]
  IN  Slice(SortFunnels(funnels), MAX_ENTITIES)

\* ------------------------------------------------------- pipeline health

\* Math.round(x) for a fraction x >= 0: the nearest integer, the upper one
\* of the two when x lies half-way.
MathRound(x) == (2 * x.num + x.den) \div (2 * x.den)

\* values.reduce((sum, value) => sum + value, 0)
RECURSIVE SumOf(_)
SumOf(values) ==
  IF values = <<>> THEN Divide(0, 1)
  ELSE Plus(SumOf(SubSeq(values, 1, Len(values) - 1)), values[Len(values)])

\* One entry of buildRateBreakdowns: value is rate * 100, or null.
RateBreakdown(key, rate) ==
  [key |-> key,
   numerator |-> rate.numerator,
   denominator |-> rate.denominator,
   value |-> IF rate.rate = Null THEN Null ELSE Some(Times(rate.rate[1], Divide(100, 1)))]

buildRateBreakdowns(list) ==
  <<RateBreakdown("dialToConnect", computeDialToConnectRate(list)),
    RateBreakdown("connectToConversation", computeConnectToConversationRate(list)),
    RateBreakdown("meetingToQualified", computeMeetingToQualifiedRate(list))>>

\* breakdowns.map((item) => item.value).filter((value) => value !== null),
\* each value without its Some
AvailableValues(breakdowns) ==
  [v \in DOMAIN SelectSeq(breakdowns, LAMBDA item : item.value # Null) |->
     SelectSeq(breakdowns, LAMBDA item : item.value # Null)[v].value[1]]

\* Mutant: each percentage is rounded before the average is taken.
computePipelineHealthScoreRoundedFirst(breakdowns) ==
  IF Len(AvailableValues(breakdowns)) = 0 THEN Null
  ELSE Some(MathRound(
         Over(SumOf([v \in DOMAIN AvailableValues(breakdowns) |->
                       Divide(MathRound(AvailableValues(breakdowns)[v]), 1)]),
              Divide(Len(AvailableValues(breakdowns)), 1))))

computePipelineHealthScore(breakdowns) ==
  IF Len(AvailableValues(breakdowns)) = 0 THEN Null
  ELSE Some(MathRound(Over(SumOf(AvailableValues(breakdowns)),
                           Divide(Len(AvailableValues(breakdowns)), 1))))

\* The comparator of entities.sort and of summaries.sort:
\* b.score - a.score || a.label.localeCompare(b.label)
CompareHealth(a, b) ==
  IF b.score - a.score # 0 THEN b.score - a.score ELSE localeCompare(a.label, b.label)

RECURSIVE InsertHealth(_, _)
InsertHealth(sorted, entity) ==
  IF sorted = <<>> THEN <<entity>>
  ELSE IF CompareHealth(Head(sorted), entity) > 0
       THEN <<entity>> \o sorted
       ELSE <<Head(sorted)>> \o InsertHealth(Tail(sorted), entity)

RECURSIVE SortHealth(_)
SortHealth(list) ==
  IF list = <<>> THEN <<>>
  ELSE InsertHealth(SortHealth(SubSeq(list, 1, Len(list) - 1)), list[Len(list)])

\* The entity of one group of grouped.forEach, its score null or Some(score)
\* until the groups without a score are left out.
HealthEntity(grouping, group, breakdowns) ==
  [id |-> group.id,
   label |-> getName(grouping, group.id, group.events[1]),
   score |-> computePipelineHealthScore(breakdowns),
   components |-> breakdowns]

\* The entities pushed, each with its score.
Scored(entities) ==
  [e \in DOMAIN SelectSeq(entities, LAMBDA entity : entity.score # Null) |->
     [SelectSeq(entities, LAMBDA entity : entity.score # Null)[e] EXCEPT !.score = @[1]]]

\* createEntityPipelineHealth(events, getId, getLabel) at its two call sites:
\* grouping is "team", with getId = event.team || '-' (every event of the
\* model names a team) and the id as label, or "sdr", with getId =
\* event.sdr_id and the label of sdrNameMap.
EntitiesOf(grouping, grouped) ==
  SortHealth(Scored([g \in DOMAIN grouped |->
                       HealthEntity(grouping, grouped[g],
                                    buildRateBreakdowns(grouped[g].events))]))

createEntityPipelineHealth(list, grouping) ==
  EntitiesOf(grouping,
             GroupEvents(<<>>, list, [i \in DOMAIN list |-> getId(grouping, list[i])]))

\* One entry of the breakdowns of pipelineByTeam: buildRateRecord(label, ...)
RateRecord(label, rate) ==
  [label |-> label, numerator |-> rate.numerator, denominator |-> rate.denominator,
   rate |-> rate.rate]

\* breakdowns.map((item) => item.rate).filter((value) => typeof value === 'number')
AvailableRates(breakdowns) ==
  [v \in DOMAIN SelectSeq(breakdowns, LAMBDA item : item.rate # Null) |->
     SelectSeq(breakdowns, LAMBDA item : item.rate # Null)[v].rate[1]]

\* The summary of one team in pipelineByTeam; score is
\* Math.round((sum / available.length) * 100), null while none is available.
TeamSummary(team, breakdowns) ==
  [id |-> team,
   label |-> team,
   score |->
     IF Len(AvailableRates(breakdowns)) = 0 THEN Null
     ELSE Some(MathRound(Times(Over(SumOf(AvailableRates(breakdowns)),
                                    Divide(Len(AvailableRates(breakdowns)), 1)),
                               Divide(100, 1)))),
   components |-> breakdowns]

TeamSummaries(grouped) ==
  SortHealth(Scored([g \in DOMAIN grouped |->
    TeamSummary(grouped[g].id,
                <<RateRecord("Dial->Connect", computeDialToConnectRate(grouped[g].events)),
                  RateRecord("Connect->Conversation",
                             computeConnectToConversationRate(grouped[g].events)),
                  RateRecord("Meeting->Qualified",
                             computeMeetingToQualifiedRate(grouped[g].events))>>)]))

\* summaries.reduce((sum, item) => sum + item.score, 0) / summaries.length
OverallAverage(teamSummaries) ==
  IF Len(teamSummaries) = 0 THEN Null
  ELSE Some(Over(SumOf([s \in DOMAIN teamSummaries |-> Divide(teamSummaries[s].score, 1)]),
                 Divide(Len(teamSummaries), 1)))

\* pipelineByTeam of buildDashboardSummaries: the events are grouped by team,
\* those without a team left out.
PipelineHealthOf(teamSummaries) ==
  [overallAverage |-> OverallAverage(teamSummaries),
   topTeams |-> Slice(teamSummaries, MAX_ENTITY_COUNT)]

pipelineByTeam(list) ==
  PipelineHealthOf(TeamSummaries(
    GroupEvents(<<>>, list, [i \in DOMAIN list |-> TeamOf(list[i])])))

\* ------------------------------------------------------------- summaries

\* The parts of buildDashboardSummaries the claims read: the four KPI rates,
\* the pipeline health by team and the three funnel groupings; entityFunnels
\* are the same groupings as the Funnels tab builds them.
buildDashboardSummaries(list) ==
  [kpis |->
     [dialToConnect |-> computeDialToConnectRate(list),
      connectToConversation |-> computeConnectToConversationRate(list),
      meetingToQualified |-> computeMeetingToQualifiedRate(list),
      noShow |-> computeNoShowRate(list)],
   pipelineHealth |-> pipelineByTeam(list),
   funnels |->
     [company |-> buildFunnels(list, "company"),
      team |-> buildFunnels(list, "team"),
      sdr |-> buildFunnels(list, "sdr")],
   entityFunnels |->
     [company |-> buildEntityFunnels(list, "company"),
      team |-> buildEntityFunnels(list, "team"),
      sdr |-> buildEntityFunnels(list, "sdr")]]

\* -------------------------------------------------------------- CSV codec
\* A string of the codec is the sequence of its characters.

Whitespace == {" ", "\t", "\n", "\r"}

RECURSIVE trimStart(_)
trimStart(text) ==
  IF text # <<>> /\ Head(text) \in Whitespace THEN trimStart(Tail(text)) ELSE text

RECURSIVE trimEnd(_)
trimEnd(text) ==
  IF text # <<>> /\ text[Len(text)] \in Whitespace
  THEN trimEnd(SubSeq(text, 1, Len(text) - 1))
  ELSE text

\* String.prototype.trim
trim(text) == trimEnd(trimStart(text))

\* String.prototype.startsWith
startsWith(text, prefix) ==
  Len(text) >= Len(prefix) /\ SubSeq(text, 1, Len(prefix)) = prefix

\* String.prototype.slice(start)
slice(text, start) == SubSeq(text, start + 1, Len(text))

\* Array.prototype.join, the list being joined by halves
RECURSIVE join(_, _)
join(list, separator) ==
  IF list = <<>> THEN <<>>
  ELSE IF Len(list) = 1 THEN list[1]
  ELSE join(SubSeq(list, 1, Len(list) \div 2), separator) \o separator
         \o join(SubSeq(list, Len(list) \div 2 + 1, Len(list)), separator)

\* content.split(/\r?\n/): a line feed, with the carriage return before it
\* when there is one, ends a line; Feed(n) is the index of the n-th line
\* feed, the index before the content for n = 0 and the one after it past
\* the last line feed.
SplitLines(content) ==
  LET feeds == {j \in 1..Len(content) : content[j] = "\n"}
      Feed(n) ==
        IF n = 0 THEN 0
        ELSE IF n > Cardinality(feeds) THEN Len(content) + 1
        ELSE CHOOSE j \in feeds : Cardinality({k \in feeds : k <= j}) = n
  IN  [n \in 1..(Cardinality(feeds) + 1) |->
         SubSeq(content, Feed(n - 1) + 1,
                IF /\ n <= Cardinality(feeds)
                   /\ Feed(n) - 1 > Feed(n - 1)
                   /\ content[Feed(n) - 1] = "\r"
                THEN Feed(n) - 2
                ELSE Feed(n) - 1)]

CSV_COLUMNS ==
  <<"event_id", "lead_id", "timestamp", "week_start", "sdr_id", "sdr_name",
    "team", "company", "industry", "channel", "outcome", "objection">>

\* The characters of each column name.
ColumnText ==
  [event_id |-> <<"e", "v", "e", "n", "t", "_", "i", "d">>,
   lead_id |-> <<"l", "e", "a", "d", "_", "i", "d">>,
   timestamp |-> <<"t", "i", "m", "e", "s", "t", "a", "m", "p">>,
   week_start |-> <<"w", "e", "e", "k", "_", "s", "t", "a", "r", "t">>,
   sdr_id |-> <<"s", "d", "r", "_", "i", "d">>,
   sdr_name |-> <<"s", "d", "r", "_", "n", "a", "m", "e">>,
   team |-> <<"t", "e", "a", "m">>,
   company |-> <<"c", "o", "m", "p", "a", "n", "y">>,
   industry |-> <<"i", "n", "d", "u", "s", "t", "r", "y">>,
   channel |-> <<"c", "h", "a", "n", "n", "e", "l">>,
   outcome |-> <<"o", "u", "t", "c", "o", "m", "e">>,
   objection |-> <<"o", "b", "j", "e", "c", "t", "i", "o", "n">>]

VALID_CHANNELS ==
  {<<"c", "a", "l", "l">>,
   <<"e", "m", "a", "i", "l">>,
   <<"l", "i", "n", "k", "e", "d", "i", "n">>}

VALID_OUTCOMES ==
  {<<"n", "o", "_", "a", "n", "s", "w", "e", "r">>,
   <<"v", "o", "i", "c", "e", "m", "a", "i", "l">>,
   <<"c", "o", "n", "n", "e", "c", "t", "e", "d">>,
   <<"c", "o", "n", "v", "e", "r", "s", "a", "t", "i", "o", "n">>,
   <<"m", "e", "e", "t", "i", "n", "g", "_", "b", "o", "o", "k", "e", "d">>,
   <<"m", "e", "e", "t", "i", "n", "g", "_", "h", "e", "l", "d">>,
   <<"n", "o", "_", "s", "h", "o", "w">>,
   <<"q", "u", "a", "l", "i", "f", "i", "e", "d">>}

\* Mutant: objections are matched without regard to case.
VALID_OBJECTIONS_ANY_CASE ==
  {<<"b", "u", "d", "g", "e", "t">>,
   <<"B", "u", "d", "g", "e", "t">>,
   <<"t", "i", "m", "i", "n", "g">>,
   <<"a", "u", "t", "h", "o", "r", "i", "t", "y">>,
   <<"n", "e", "e", "d">>,
   <<"o", "t", "h", "e", "r">>}

VALID_OBJECTIONS ==
  {<<"b", "u", "d", "g", "e", "t">>,
   <<"t", "i", "m", "i", "n", "g">>,
   <<"a", "u", "t", "h", "o", "r", "i", "t", "y">>,
   <<"n", "e", "e", "d">>,
   <<"o", "t", "h", "e", "r">>}

\* String(value).replace(/"/g, '""'), the text being taken by halves
RECURSIVE EscapeQuotes(_)
EscapeQuotes(text) ==
  IF Len(text) > 1
  THEN EscapeQuotes(SubSeq(text, 1, Len(text) \div 2))
         \o EscapeQuotes(SubSeq(text, Len(text) \div 2 + 1, Len(text)))
  ELSE IF text = <<"\"">> THEN <<"\"", "\"">>
  ELSE text

\* value is Null or Some(text).
formatCsvValue(value) ==
  IF value = Null THEN <<>> ELSE <<"\"">> \o EscapeQuotes(value[1]) \o <<"\"">>

\* The loop of parseCsvLine within one value: from index s.i on (counted
\* from 1) to the comma outside quotes that ends the value, or to the end of
\* the line.  The characters before the next quote or, outside quotes, the
\* next comma are appended to current in one step: the loop does nothing
\* else with them.
RECURSIVE ParseValue(_)
ParseValue(s) ==
  LET marks ==
        {j \in s.i..Len(s.line) : s.line[j] = "\"" \/ (~s.inQuotes /\ s.line[j] = ",")}
      at == IF marks = {} THEN Len(s.line) + 1
            ELSE CHOOSE j \in marks : \A k \in marks : j <= k
      appended == s.current \o SubSeq(s.line, s.i, at - 1)
  IN  IF at > Len(s.line) \/ s.line[at] = ","
      THEN [s EXCEPT !.current = appended, !.i = at]
      ELSE IF s.inQuotes /\ at + 1 <= Len(s.line) /\ s.line[at + 1] = "\""
      THEN ParseValue([s EXCEPT !.current = Append(appended, "\""), !.i = at + 2])
      ELSE ParseValue([s EXCEPT !.current = appended, !.i = at + 1, !.inQuotes = ~@])

\* The loop of parseCsvLine value by value: s is at the comma that ends a
\* value, where values.push(current); current = '', or at the end of the
\* line, where values.push(current); return values.
RECURSIVE ParseCsvFrom(_)
ParseCsvFrom(s) ==
  IF s.i > Len(s.line) THEN Append(s.values, s.current)
  ELSE ParseCsvFrom(ParseValue([s EXCEPT !.values = Append(@, s.current),
                                         !.current = <<>>, !.i = @ + 1]))

parseCsvLine(line) ==
  ParseCsvFrom(ParseValue([line |-> line, i |-> 1, values |-> <<>>, current |-> <<>>,
                           inQuotes |-> FALSE]))

\* header.trim().replace(/^"|"$/g, '')
sanitizeHeader(header) ==
  LET trimmed == trim(header)
      opened == IF trimmed # <<>> /\ Head(trimmed) = "\"" THEN Tail(trimmed) ELSE trimmed
  IN  IF opened # <<>> /\ opened[Len(opened)] = "\""
      THEN SubSeq(opened, 1, Len(opened) - 1)
      ELSE opened

\* The fields of buildDashboardSummaries(events, dataset) the codec writes.
CsvSummaries(dataset) ==
  [generatedAt |-> <<"2", "0", "2", "4", "-", "0", "1", "-", "0", "8", "T", "0", "0", ":", "0", "0", ":", "0", "0", ".", "0", "0", "0", "Z">>, seed |-> dataset.seed]

JSON_HEAD == <<"{", "\"", "g", "e", "n", "e", "r", "a", "t", "e", "d", "A", "t", "\"", ":", "\"">>

JSON_MID == <<"\"", ",", "\"", "s", "e", "e", "d", "\"", ":", "\"">>

JSON_TAIL == <<"\"", "}">>

\* JSON.stringify(summaries): one line of text (a line break inside a string
\* is written escaped).
JsonStringify(value) ==
  JSON_HEAD \o value.generatedAt \o JSON_MID \o value.seed \o JSON_TAIL

\* JSON.parse(json): the value of a text JsonStringify writes, a SyntaxError
\* for another text.
JsonParse(json) ==
  LET stamp == Len(CsvSummaries([seed |-> <<>>]).generatedAt)
      seedStart == Len(JSON_HEAD) + stamp + Len(JSON_MID) + 1
      seedEnd == Len(json) - Len(JSON_TAIL)
  IN  IF /\ startsWith(json, JSON_HEAD)
         /\ seedEnd >= seedStart - 1
         /\ SubSeq(json, Len(JSON_HEAD) + stamp + 1, seedStart - 1) = JSON_MID
         /\ SubSeq(json, seedEnd + 1, Len(json)) = JSON_TAIL
      THEN [ok |-> TRUE,
            value |-> [generatedAt |-> SubSeq(json, Len(JSON_HEAD) + 1, Len(JSON_HEAD) + stamp),
                       seed |-> SubSeq(json, seedStart, seedEnd)]]
      ELSE [ok |-> FALSE]

SUMMARY_PREFIX == <<"D", "A", "S", "H", "B", "O", "A", "R", "D", "_", "S", "U", "M", "M", "A", "R", "Y", "_", "J", "S", "O", "N", "=">>

SEED_PREFIX == <<"D", "A", "T", "A", "S", "E", "T", "_", "S", "E", "E", "D", "=">>

\* event[column] as formatCsvValue receives it: Null or Some(text).
ColumnValue(event, column) ==
  IF column = "objection" THEN event[column] ELSE Some(event[column])

serializeDashboardCsv(list, dataset) ==
  LET summary == CsvSummaries(dataset)
      metadataLines ==
        <<<<"#", " ">> \o SUMMARY_PREFIX \o JsonStringify(summary),
          <<"#", " ">> \o SEED_PREFIX \o dataset.seed,
          <<"#", " ", "G", "E", "N", "E", "R", "A", "T", "E", "D", "_", "A", "T", "=">> \o summary.generatedAt>>
      headerRow ==
        join([c \in 1..Len(CSV_COLUMNS) |->
                formatCsvValue(Some(ColumnText[CSV_COLUMNS[c]]))], <<",">>)
      dataRows ==
        [i \in 1..Len(list) |->
           join([c \in 1..Len(CSV_COLUMNS) |->
                   formatCsvValue(ColumnValue(list[i], CSV_COLUMNS[c]))], <<",">>)]
  IN  [csv |-> join(metadataLines \o <<headerRow>> \o dataRows, <<"\n">>),
       summaries |-> summary]

\* throw new Error(message): the message is the parts of its template.
Throw(message) == [ok |-> FALSE, error |-> message]

\* CSV_COLUMNS.includes(normalized)
IsColumn(normalized) == \E c \in 1..Len(CSV_COLUMNS) : ColumnText[CSV_COLUMNS[c]] = normalized

ColumnOf(normalized) ==
  CSV_COLUMNS[CHOOSE c \in 1..Len(CSV_COLUMNS) : ColumnText[CSV_COLUMNS[c]] = normalized]

\* The callback of headerColumns.forEach for the header at s.index; s.row is
\* the row filled so far and s.thrown the error thrown, Null while there is
\* none.
RowCallback(s) ==
  LET normalized == sanitizeHeader(s.headerColumns[s.index])
      rawValue == trim(IF s.index <= Len(s.values) THEN s.values[s.index] ELSE <<>>)
  IN  IF ~IsColumn(normalized) THEN s
      ELSE
        LET column == ColumnOf(normalized)
        IN  IF column = "channel"
            THEN IF rawValue \notin VALID_CHANNELS
                 THEN [s EXCEPT !.thrown =
                         Some(<<"Invalid channel value \"", rawValue, "\" in CSV.">>)]
                 ELSE [s EXCEPT !.row = Spread(@, column :> rawValue)]
            ELSE IF column = "outcome"
            THEN IF rawValue \notin VALID_OUTCOMES
                 THEN [s EXCEPT !.thrown =
                         Some(<<"Invalid outcome value \"", rawValue, "\" in CSV.">>)]
                 ELSE [s EXCEPT !.row = Spread(@, column :> rawValue)]
            ELSE IF column = "objection"
            THEN IF rawValue = <<>>
                 THEN [s EXCEPT !.row = Spread(@, column :> Null)]
                 ELSE IF rawValue \notin VALID_OBJECTIONS
                 THEN [s EXCEPT !.thrown =
                         Some(<<"Invalid objection value \"", rawValue, "\" in CSV.">>)]
                 ELSE [s EXCEPT !.row = Spread(@, column :> Some(rawValue))]
            ELSE [s EXCEPT !.row = Spread(@, column :> rawValue)]

\* Mutant: the values of a row are read in the order of the schema, whatever
\* the header.
RECURSIVE RowFromSchema(_)
RowFromSchema(s) ==
  IF s.thrown # Null \/ s.index > Len(CSV_COLUMNS) THEN s
  ELSE RowFromSchema(
         [RowCallback([s EXCEPT !.headerColumns =
                         [c \in DOMAIN CSV_COLUMNS |-> ColumnText[CSV_COLUMNS[c]]]])
            EXCEPT !.index = @ + 1])

\* headerColumns.forEach((header, index) => ...) from the header at s.index
\* on, until an error is thrown.
RECURSIVE RowFrom(_)
RowFrom(s) ==
  IF s.thrown # Null \/ s.index > Len(s.headerColumns) THEN s
  ELSE RowFrom([RowCallback(s) EXCEPT !.index = @ + 1])

hasAllRequired(row) ==
  \A c \in 1..Len(CSV_COLUMNS) :
    LET column == CSV_COLUMNS[c]
    IN  IF column = "objection"
        THEN column \in DOMAIN row
        ELSE column \in DOMAIN row /\ Len(trim(row[column])) > 0

\* The callback of lines.forEach for the line at s.i; s holds headerColumns,
\* events, summaries and seed, and s.thrown the error thrown, Null while
\* there is none.
LineCallback(s) ==
  LET line == s.lines[s.i]
  IN  IF startsWith(line, <<"#">>)
      THEN LET payload == trim(slice(line, 1))
           IN  IF startsWith(payload, SUMMARY_PREFIX)
               THEN LET value == JsonParse(slice(payload, Len(SUMMARY_PREFIX)))
                    IN  IF value.ok
                        THEN [s EXCEPT !.summaries = Some(value.value)]
                        ELSE [s EXCEPT !.thrown =
                                Some(<<"Unable to parse dashboard summaries metadata.">>)]
               ELSE IF startsWith(payload, SEED_PREFIX)
               THEN [s EXCEPT !.seed = Some(trim(slice(payload, Len(SEED_PREFIX))))]
               ELSE s
      ELSE IF s.headerColumns = Null
      THEN LET cells == parseCsvLine(line)
               headerColumns == [h \in 1..Len(cells) |-> sanitizeHeader(cells[h])]
               missing ==
                 SelectSeq(CSV_COLUMNS,
                           LAMBDA column :
                             \A h \in 1..Len(headerColumns) :
                               headerColumns[h] # ColumnText[column])
           IN  IF Len(missing) > 0
               THEN [s EXCEPT !.thrown =
                       Some(<<"Missing required columns: ",
                              join([m \in 1..Len(missing) |-> ColumnText[missing[m]]],
                                   <<",", " ">>)>>)]
               ELSE [s EXCEPT !.headerColumns = Some(headerColumns)]
      ELSE LET filled == RowFrom([headerColumns |-> s.headerColumns[1],
                                  values |-> parseCsvLine(line), index |-> 1,
                                  row |-> <<>>, thrown |-> Null])
           IN  IF filled.thrown # Null THEN [s EXCEPT !.thrown = filled.thrown]
               ELSE IF ~hasAllRequired(filled.row)
               THEN [s EXCEPT !.thrown =
                       Some(<<"One or more rows are missing required values.">>)]
               ELSE [s EXCEPT !.events = Append(@, filled.row)]

\* lines.forEach((line) => ...) from the line at s.i on, until an error is
\* thrown.
RECURSIVE LinesFrom(_)
LinesFrom(s) ==
  IF s.thrown # Null \/ s.i > Len(s.lines) THEN s
  ELSE LinesFrom([LineCallback(s) EXCEPT !.i = @ + 1])

\* Mutant: the rows parsed before an error are returned.
ParsedOrThrownPartial(done) ==
  IF done.headerColumns = Null THEN Throw(<<"CSV header row is missing.">>)
  ELSE [ok |-> TRUE, events |-> done.events, summaries |-> done.summaries,
        seed |-> done.seed]

\* What parseDashboardCsv returns or throws once lines.forEach is over.
ParsedOrThrown(done) ==
  IF done.thrown # Null THEN Throw(done.thrown[1])
  ELSE IF done.headerColumns = Null THEN Throw(<<"CSV header row is missing.">>)
  ELSE [ok |-> TRUE, events |-> done.events, summaries |-> done.summaries,
        seed |-> done.seed]

parseDashboardCsv(content) ==
  LET split == SplitLines(content)
      lines == SelectSeq([l \in 1..Len(split) |-> trim(split[l])], LAMBDA line : Len(line) > 0)
  IN  IF Len(lines) = 0
      THEN Throw(<<"CSV file is empty.">>)
      ELSE ParsedOrThrown(LinesFrom([lines |-> lines, i |-> 1, headerColumns |-> Null,
                                     events |-> <<>>, summaries |-> Null, seed |-> Null,
                                     thrown |-> Null]))

\* ------------------------------------------------------- imported dataset

UpperCase == <<"A", "B", "C", "D", "E", "F", "G", "H", "I", "J", "K", "L", "M", "N", "O", "P", "Q", "R", "S", "T", "U", "V", "W", "X", "Y", "Z">>

LowerCase == <<"a", "b", "c", "d", "e", "f", "g", "h", "i", "j", "k", "l", "m", "n", "o", "p", "q", "r", "s", "t", "u", "v", "w", "x", "y", "z">>

\* String.prototype.toLowerCase
toLowerCase(text) ==
  [i \in DOMAIN text |->
     IF \E k \in DOMAIN UpperCase : UpperCase[k] = text[i]
     THEN LowerCase[CHOOSE k \in DOMAIN UpperCase : UpperCase[k] = text[i]]
     ELSE text[i]]

\* [a-z0-9]
IsSlugCharacter(c) ==
  \/ \E k \in DOMAIN LowerCase : LowerCase[k] = c
  \/ c \in {"0", "1", "2", "3", "4", "5", "6", "7", "8", "9"}

\* The elements of list at the indexes of the set kept, in their order.
Kept(list, kept) ==
  [n \in 1..Cardinality(kept) |->
     list[CHOOSE j \in kept : Cardinality({k \in kept : k <= j}) = n]]

\* text.replace(/[^a-z0-9]+/g, '-'): of each run of other characters the
\* first is kept, as a hyphen.
ReplaceRuns(text) ==
  Kept([i \in DOMAIN text |-> IF IsSlugCharacter(text[i]) THEN text[i] ELSE "-"],
       {i \in DOMAIN text : IsSlugCharacter(text[i]) \/ i = 1 \/ IsSlugCharacter(text[i - 1])})

\* text.replace(/(^-|-$)/g, '')
StripHyphens(text) ==
  Kept(text, {i \in DOMAIN text : text[i] # "-" \/ (i # 1 /\ i # Len(text))})

toSlug(value) ==
  IF StripHyphens(ReplaceRuns(toLowerCase(trim(value)))) = <<>>
  THEN <<"i", "t", "e", "m">>
  ELSE StripHyphens(ReplaceRuns(toLowerCase(trim(value))))

\* The characters of the imported names in the order of the collation: a
\* lower-case letter before its capital, both before the next letter.
CollationCharacters == <<" ", "_", "-", ",", ".", "0", "1", "2", "3", "4", "5", "6", "7", "8", "9", "a", "A", "b", "B", "c", "C", "d", "D", "e", "E", "f", "F", "g", "G", "h", "H", "i", "I", "j", "J", "k", "K", "l", "L", "m", "M", "n", "N", "o", "O", "p", "P", "q", "Q", "r", "R", "s", "S", "t", "T", "u", "U", "v", "V", "w", "W", "x", "X", "y", "Y", "z", "Z">>

CharacterRank(c) == CHOOSE k \in DOMAIN CollationCharacters : CollationCharacters[k] = c

\* a.localeCompare(b) for two texts: the first character in which they
\* differ decides, a text coming after the texts it continues.
localeCompareText(a, b) ==
  IF \E i \in DOMAIN a : i \in DOMAIN b /\ a[i] # b[i]
  THEN CharacterRank(a[CHOOSE i \in DOMAIN a :
                         /\ i \in DOMAIN b /\ a[i] # b[i]
                         /\ \A k \in 1..(i - 1) : a[k] = b[k]])
        - CharacterRank(b[CHOOSE i \in DOMAIN a :
                            /\ i \in DOMAIN b /\ a[i] # b[i]
                            /\ \A k \in 1..(i - 1) : a[k] = b[k]])
  ELSE Len(a) - Len(b)

\* list.sort((a, b) => Key(a).localeCompare(Key(b))): the sort is stable,
\* so an entry goes behind the entries that compare lower and the earlier
\* entries that compare equal.
SortByText(list, Key(_)) ==
  [n \in DOMAIN list |->
     list[CHOOSE i \in DOMAIN list :
            Cardinality({j \in DOMAIN list :
                           \/ localeCompareText(Key(list[j]), Key(list[i])) < 0
                           \/ /\ localeCompareText(Key(list[j]), Key(list[i])) = 0
                              /\ j < i}) = n - 1]]

\* Whether a Map, the sequence of its entries in the order of insertion,
\* has the key; a Set is the sequence of its members.
HasEntry(entries, Key(_), key) == \E k \in DOMAIN entries : Key(entries[k]) = key

ItsName(entry) == entry.name

ItsId(entry) == entry.id

Itself(entry) == entry

\* The callback of events.forEach in buildDatasetFromEvents, statement by
\* statement; a text is truthy when it is not empty.
AddTeam(s, event) ==
  IF event.team # <<>> /\ ~HasEntry(s.teamSet, Itself, event.team)
  THEN [s EXCEPT !.teamSet = Append(@, event.team)]
  ELSE s

AddIndustry(s, event) ==
  IF event.industry # <<>> /\ ~HasEntry(s.industryMap, ItsName, trim(event.industry))
  THEN [s EXCEPT !.industryMap = Append(@, [name |-> trim(event.industry), quiet |-> FALSE])]
  ELSE s

AddCompany(s, event) ==
  IF event.company # <<>> /\ ~HasEntry(s.companyMap, ItsName, trim(event.company))
  THEN [s EXCEPT !.companyMap = Append(@, [id |-> toSlug(trim(event.company)),
                                           name |-> trim(event.company),
                                           industry |-> event.industry])]
  ELSE s

\* const id = sdrId || toSlug(sdrName ?? 'sdr'), name = sdrName || sdrId ||
\* 'Unknown SDR', team = event.team || 'Unknown Team'
SdrEntry(sdrId, sdrName, team) ==
  [id |-> IF sdrId # <<>> THEN sdrId ELSE toSlug(sdrName),
   name |-> IF sdrName # <<>> THEN sdrName
            ELSE IF sdrId # <<>> THEN sdrId ELSE <<"U", "n", "k", "n", "o", "w", "n", " ", "S", "D", "R">>,
   team |-> IF team # <<>> THEN team ELSE <<"U", "n", "k", "n", "o", "w", "n", " ", "T", "e", "a", "m">>]

AddSdr(s, event) ==
  IF /\ trim(event.sdr_id) # <<>> \/ trim(event.sdr_name) # <<>>
     /\ ~HasEntry(s.sdrMap, ItsId,
                  SdrEntry(trim(event.sdr_id), trim(event.sdr_name), event.team).id)
  THEN [s EXCEPT !.sdrMap = Append(@, SdrEntry(trim(event.sdr_id), trim(event.sdr_name),
                                               event.team))]
  ELSE s

\* events.forEach((event) => ...) from the event at s.i on
RECURSIVE DirectoriesFrom(_)
DirectoriesFrom(s) ==
  IF s.i > Len(s.events) THEN s
  ELSE DirectoriesFrom([AddSdr(AddCompany(AddIndustry(AddTeam(s, s.events[s.i]),
                                                      s.events[s.i]),
                                          s.events[s.i]),
                               s.events[s.i])
                          EXCEPT !.i = @ + 1])

\* return { seed, events, sdrs, teams, industries, companies }
SortedDirectories(s, seed) ==
  [seed |-> seed, events |-> s.events,
   sdrs |-> SortByText(s.sdrMap, ItsName),
   teams |-> SortByText(s.teamSet, Itself),
   industries |-> SortByText(s.industryMap, ItsName),
   companies |-> SortByText(s.companyMap, ItsName)]

\* Mutant: the companies are entered under their slugs.
buildDatasetFromEventsSlugged(list, seed) ==
  LET built == SortedDirectories(DirectoriesFrom([events |-> list, i |-> 1, sdrMap |-> <<>>,
                                                  teamSet |-> <<>>, industryMap |-> <<>>,
                                                  companyMap |-> <<>>]), seed)
  IN  [built EXCEPT !.companies = [c \in DOMAIN built.companies |->
                                     [built.companies[c] EXCEPT !.name = built.companies[c].id]]]

buildDatasetFromEvents(list, seed) ==
  SortedDirectories(DirectoriesFrom([events |-> list, i |-> 1, sdrMap |-> <<>>,
                                     teamSet |-> <<>>, industryMap |-> <<>>,
                                     companyMap |-> <<>>]), seed)

\* The texts of the channels and the outcomes.
EnumText ==
  [call |-> <<"c", "a", "l", "l">>, email |-> <<"e", "m", "a", "i", "l">>, linkedin |-> <<"l", "i", "n", "k", "e", "d", "i", "n">>,
   no_answer |-> <<"n", "o", "_", "a", "n", "s", "w", "e", "r">>, voicemail |-> <<"v", "o", "i", "c", "e", "m", "a", "i", "l">>, connected |-> <<"c", "o", "n", "n", "e", "c", "t", "e", "d">>,
   conversation |-> <<"c", "o", "n", "v", "e", "r", "s", "a", "t", "i", "o", "n">>, meeting_booked |-> <<"m", "e", "e", "t", "i", "n", "g", "_", "b", "o", "o", "k", "e", "d">>,
   meeting_held |-> <<"m", "e", "e", "t", "i", "n", "g", "_", "h", "e", "l", "d">>, no_show |-> <<"n", "o", "_", "s", "h", "o", "w">>, qualified |-> <<"q", "u", "a", "l", "i", "f", "i", "e", "d">>]

\* Number(text) for a text of decimal digits
RECURSIVE NumberOf(_)
NumberOf(text) ==
  IF text = <<>> THEN 0
  ELSE 10 * NumberOf(SubSeq(text, 1, Len(text) - 1))
         + (CHOOSE d \in 0..9 :
              <<"0", "1", "2", "3", "4", "5", "6", "7", "8", "9">>[d + 1] = text[Len(text)])

\* new Date(text) for an ISO text YYYY-MM-DDTHH:mm:ss.sssZ of January 2024, as
\* the day counted from the 8th and the milliseconds within the day; Null,
\* the invalid date, for another text.
DateOf(text) ==
  IF Len(text) = 24 /\ SubSeq(text, 1, 8) = <<"2", "0", "2", "4", "-", "0", "1", "-">> /\ text[11] = "T" /\ text[24] = "Z"
  THEN [day |-> NumberOf(SubSeq(text, 9, 10)) - 8,
        ms |-> ((NumberOf(SubSeq(text, 12, 13)) * 60 + NumberOf(SubSeq(text, 15, 16))) * 60
                  + NumberOf(SubSeq(text, 18, 19))) * 1000 + NumberOf(SubSeq(text, 21, 23))]
  ELSE Null

\* events.push(row as OutreachEvent): the row as the event the transforms
\* read, which have a channel and an outcome as names and a timestamp as a
\* date; the other columns keep their texts.
AsOutreachEvent(row) ==
  [row EXCEPT !.channel = CHOOSE c \in Channels : EnumText[c] = @,
              !.outcome = CHOOSE o \in Outcomes : EnumText[o] = @,
              !.timestamp = DateOf(@)]

\* The dataset prepareDatasetFromCsv builds from the result of
\* parseDashboardCsv, or the error it threw.  seed ?? 'imported-dataset'.
DatasetOrThrown(result) ==
  IF ~result.ok THEN result
  ELSE [ok |-> TRUE,
        dataset |-> buildDatasetFromEvents(
                      [i \in DOMAIN result.events |-> AsOutreachEvent(result.events[i])],
                      IF result.seed = Null THEN <<"i", "m", "p", "o", "r", "t", "e", "d", "-", "d", "a", "t", "a", "s", "e", "t">> ELSE result.seed[1])]

\* const nextSummaries = summaries ?? buildDashboardSummaries(derivedEvents, dataset);
\* return { dataset, summaries: nextSummaries };
WithSummaries(result, prepared) ==
  IF ~prepared.ok THEN prepared
  ELSE [ok |-> TRUE, dataset |-> prepared.dataset,
        summaries |-> IF result.summaries = Null
                      THEN CsvSummaries(prepared.dataset)
                      ELSE result.summaries[1]]

PreparedOrThrown(result) == WithSummaries(result, DatasetOrThrown(result))

prepareDatasetFromCsv(content) == PreparedOrThrown(parseDashboardCsv(content))

\* ------------------------------------------------------------------ store

DEFAULT_SEED == [string |-> <<"d", "a", "s", "h", "b", "o", "a", "r", "d", "-", "s", "e", "e", "d">>]

createInitialFilters ==
  [teams |-> <<>>, sdrs |-> <<>>, companies |-> <<>>, industries |-> <<>>,
   channels |-> <<>>]

createInitialDateRange == [start |-> Null, end |-> Null]

\* toBoundaryTimestamp(value, boundary): value is Null or Some(date); a date
\* without ms is the text of a day, which gets the first or the last
\* millisecond of the day, and a date with ms is an ISO text.
toBoundaryTimestamp(value, boundary) ==
  IF value = Null THEN Null
  ELSE IF "ms" \in DOMAIN value[1] THEN Some(getTime(value[1]))
  ELSE Some(getTime([day |-> value[1].day,
                     ms |-> IF boundary = "start" THEN 0 ELSE MS_PER_DAY - 1]))

\* Array.prototype.includes
Includes(list, value) == \E i \in DOMAIN list : list[i] = value

\* The callback of events.filter in computeFilteredEvents.
PassesFilters(event, filters, startTime, endTime) ==
  /\ ~(Len(filters.teams) > 0 /\ ~Includes(filters.teams, event.team))
  /\ ~(Len(filters.sdrs) > 0 /\ ~Includes(filters.sdrs, event.sdr_id))
  /\ ~(Len(filters.companies) > 0 /\ ~Includes(filters.companies, event.company))
  /\ ~(Len(filters.industries) > 0 /\ ~Includes(filters.industries, event.industry))
  /\ ~(Len(filters.channels) > 0 /\ ~Includes(filters.channels, event.channel))
  /\ ~(startTime # Null /\ getTime(event.timestamp) < startTime[1])
  /\ ~(endTime # Null /\ getTime(event.timestamp) > endTime[1])

computeFilteredEvents(list, filters, range) ==
  IF /\ Len(filters.teams) = 0
     /\ Len(filters.sdrs) = 0
     /\ Len(filters.industries) = 0
     /\ Len(filters.channels) = 0
     /\ range.start = Null
     /\ range.end = Null
  THEN list
  ELSE SelectSeq(list,
                 LAMBDA event :
                   PassesFilters(event, filters, toBoundaryTimestamp(range.start, "start"),
                                 toBoundaryTimestamp(range.end, "end")))

\* this.state = { ...this.state, ...partial }
updateState(state, partial) == Spread(state, partial)

\* The partial of reseed and of replaceDataset, and the state the
\* constructor assigns, for the dataset and its derived events.
WithDataset(dataset, derived) ==
  [dataset |-> dataset, derivedEvents |-> derived,
   filters |-> createInitialFilters, dateRange |-> createInitialDateRange,
   filteredEvents |->
     computeFilteredEvents(derived, createInitialFilters, createInitialDateRange),
   seed |-> dataset.seed]

\* Mutant: a replacement that keeps the filters of the state.
replaceDatasetKeepingFilters(state, dataset) ==
  updateState(state, [WithDataset(dataset, deriveEvents(dataset.events))
                        EXCEPT !.filters = state.filters])

replaceDataset(state, dataset) ==
  updateState(state, WithDataset(dataset, deriveEvents(dataset.events)))

setFilters(state, updates) ==
  updateState(state,
              [filters |-> Spread(state.filters, updates),
               filteredEvents |->
                 computeFilteredEvents(state.derivedEvents, Spread(state.filters, updates),
                                       state.dateRange)])

resetFilters(state) ==
  updateState(state,
              [filters |-> createInitialFilters, dateRange |-> createInitialDateRange,
               filteredEvents |->
                 computeFilteredEvents(state.derivedEvents, createInitialFilters,
                                       createInitialDateRange)])

setDateRange(state, range) ==
  updateState(state,
              [dateRange |-> range,
               filteredEvents |->
                 computeFilteredEvents(state.derivedEvents, state.filters, range)])

\* Mutant: an import that fails clears the filters and the date range.
ImportedOrCleared(state, result) ==
  IF result.ok
  THEN [state |-> replaceDataset(state, result.dataset),
        toast |-> [message |-> <<"Imported ", Len(result.dataset.events),
                                 " events from CSV.">>,
                   tone |-> "success"]]
  ELSE [state |-> resetFilters(state),
        toast |-> [message |-> result.error, tone |-> "error"]]

\* The try block of reader.onload and its catch: what the handler does to
\* the state of the store and the toast it shows.
Imported(state, result) ==
  IF result.ok
  THEN [state |-> replaceDataset(state, result.dataset),
        toast |-> [message |-> <<"Imported ", Len(result.dataset.events),
                                 " events from CSV.">>,
                   tone |-> "success"]]
  ELSE [state |-> state, toast |-> [message |-> result.error, tone |-> "error"]]

\* -------------------------------------------------------------- generator
\* A 32-bit word is [hi, lo], its two 16-bit halves; the operations below are
\* those of JavaScript on the 32-bit pattern of a number.

Word(hi, lo) == [hi |-> hi, lo |-> lo]

\* a ^ b and a | b for two 4-bit digits, bit by bit
XorDigit ==
  [a \in 0..15, b \in 0..15 |->
     ((a + b) % 2) + 2 * (((a \div 2) + (b \div 2)) % 2)
       + 4 * (((a \div 4) + (b \div 4)) % 2) + 8 * (((a \div 8) + (b \div 8)) % 2)]

OrDigit == [a \in 0..15, b \in 0..15 |-> a + b - ((a + b - XorDigit[a, b]) \div 2)]

\* a ^ b and a | b for two 16-bit halves, digit by digit from the lowest
BitXor(a, b) ==
  XorDigit[a % 16, b % 16]
    + 16 * (XorDigit[(a \div 16) % 16, (b \div 16) % 16]
    + 16 * (XorDigit[(a \div 256) % 16, (b \div 256) % 16]
    + 16 * XorDigit[a \div 4096, b \div 4096]))

BitOr(a, b) ==
  OrDigit[a % 16, b % 16]
    + 16 * (OrDigit[(a \div 16) % 16, (b \div 16) % 16]
    + 16 * (OrDigit[(a \div 256) % 16, (b \div 256) % 16]
    + 16 * OrDigit[a \div 4096, b \div 4096]))

\* x ^ y
Xor(x, y) == [hi |-> BitXor(x.hi, y.hi), lo |-> BitXor(x.lo, y.lo)]

\* x | y
Or(x, y) == [hi |-> BitOr(x.hi, y.hi), lo |-> BitOr(x.lo, y.lo)]

\* x >>> k, 0 < k < 32
Shr(x, k) ==
  IF k >= 16 THEN [hi |-> 0, lo |-> x.hi \div (2 ^ (k - 16))]
  ELSE [hi |-> x.hi \div (2 ^ (k)),
        lo |-> (x.lo \div (2 ^ (k))) + (x.hi % (2 ^ (k))) * (2 ^ (16 - k))]

\* x << k, 0 < k < 16
Shl(x, k) ==
  [hi |-> (x.hi % (2 ^ (16 - k))) * (2 ^ (k)) + (x.lo \div (2 ^ (16 - k))),
   lo |-> (x.lo % (2 ^ (16 - k))) * (2 ^ (k))]

\* x + y on 32 bits
Add(x, y) ==
  [hi |-> (x.hi + y.hi + ((x.lo + y.lo) \div 65536)) % 65536, lo |-> (x.lo + y.lo) % 65536]

\* (a * b) % 2^16 and (a * b) \div 2^16 for two 16-bit halves, without
\* leaving 31 bits
MulLow(a, b) == (a * (b % 256) + ((a * (b \div 256)) % 256) * 256) % 65536

MulHigh(a, b) == ((a * (b % 256)) \div 256 + a * (b \div 256)) \div 256

\* Math.imul(x, y): the low 32 bits of the product
imul(x, y) ==
  [hi |-> (MulHigh(x.lo, y.lo) + MulLow(x.hi, y.lo) + MulLow(x.lo, y.hi)) % 65536,
   lo |-> MulLow(x.lo, y.lo)]

\* (x << k) | (x >>> (32 - k)), 0 < k < 16
RotateLeft(x, k) == Or(Shl(x, k), Shr(x, 32 - k))

\* str.charCodeAt(i) for the characters of the seeds
charCode ==
  [c \in {"0", "1", "2", "3", "4", "5", "6", "7", "8", "9"} |->
     CASE c = "0" -> 48 [] c = "1" -> 49 [] c = "2" -> 50 [] c = "3" -> 51
       [] c = "4" -> 52 [] c = "5" -> 53 [] c = "6" -> 54 [] c = "7" -> 55
       [] c = "8" -> 56 [] c = "9" -> 57]
  @@ [c \in {"a", "b", "d", "e", "s", "-"} |->
     CASE c = "a" -> 97 [] c = "b" -> 98 [] c = "d" -> 100 [] c = "e" -> 101
       [] c = "s" -> 115 [] c = "-" -> 45]
  @@ [c \in {"h", "o", "r"} |-> CASE c = "h" -> 104 [] c = "o" -> 111 [] c = "r" -> 114]

\* The loop of xmur3 over the characters of str; s.i is the index i of the
\* source, counted from 0, and s.h its h; 3432918353 is the multiplier.
RECURSIVE Xmur3Loop(_)
Xmur3Loop(s) ==
  IF s.i >= Len(s.str) THEN s
  ELSE Xmur3Loop([s EXCEPT
                    !.h = RotateLeft(imul(Xor(@, Word(0, charCode[s.str[s.i + 1]])),
                                          Word(52382, 11601)), 13),
                    !.i = @ + 1])

\* xmur3(str)(): the hash of the seed string, 1779033703 ^ str.length being
\* the start; the three assignments to h of the closure follow the loop, with
\* the multipliers 2246822507 and 3266489909.
xmur3(str) ==
  [[[Xmur3Loop([str |-> str, i |-> 0, h |-> Xor(Word(27145, 58983), Word(0, Len(str)))])
       EXCEPT !.h = imul(Xor(@, Shr(@, 16)), Word(34283, 51819))]
       EXCEPT !.h = imul(Xor(@, Shr(@, 13)), Word(49842, 44597))]
       EXCEPT !.h = Xor(@, Shr(@, 16))].h

\* Number.prototype.toString for a natural number
RECURSIVE Digits(_)
Digits(n) ==
  LET digit == <<"0", "1", "2", "3", "4", "5", "6", "7", "8", "9">>[(n % 10) + 1]
  IN  IF n < 10 THEN <<digit>> ELSE Append(Digits(n \div 10), digit)

\* seedInput.toString(): a seed is [number |-> n] or [string |-> characters]
seedToString(seedInput) ==
  IF "number" \in DOMAIN seedInput THEN Digits(seedInput.number) ELSE seedInput.string

\* createRng(seedInput): the state a of mulberry32 before its first call
createRng(seedInput) == xmur3(seedToString(seedInput))

\* mulberry32(): the next state a, as rng, and the numerator t of the value
\* t / 2^32, as value, which starts as a and takes the assignments to t.
\* a += 0x6d2b79f5 is kept on 32 bits: the bit operations read a modulo 2^32
\* and a stays an exact integer for the calls a dataset makes.
mulberry32(a) ==
  [[[[rng |-> Add(a, Word(27947, 31221)), value |-> Add(a, Word(27947, 31221))]
       EXCEPT !.value = imul(Xor(@, Shr(@, 15)), Or(Word(0, 1), @))]
       EXCEPT !.value = Xor(@, Add(@, imul(Xor(@, Shr(@, 7)), Or(Word(0, 61), @))))]
       EXCEPT !.value = Xor(@, Shr(@, 14))]

\* Math.floor(value * n / 2^(16 + k)) for the numerator of a draw and a
\* natural n below 2^15: floor(rng() * n) is MulShift(value, n, 16).
MulShift(value, n, k) == (value.hi * n + (value.lo * n) \div 65536) \div (2 ^ (k))

\* The tables of the module.  A weight is the exact decimal the source
\* writes, kept as a fraction; JavaScript holds the nearest binary double,
\* which orders a draw and a threshold the same way unless they are equal.

TeamNamesAtLoad ==
  <<"Outbound Alpha", "Pipeline Pros", "Growth Gurus", "Enterprise Edge",
    "Demand Drivers", "Revenue Rockets">>

FIRST_NAMES ==
  <<"Jordan", "Taylor", "Morgan", "Avery", "Riley", "Hayden", "Quinn", "Reese",
    "Drew", "Casey", "Peyton", "Blair", "Skyler", "Rowan", "Cameron">>

LAST_NAMES ==
  <<"Lee", "Patel", "Garcia", "Nguyen", "Johnson", "Davis", "Walker", "Clark",
    "Simmons", "Morgan", "Keller", "Bryant", "Foster", "Harper", "Shaw">>

IndustryPoolAtLoad ==
  <<[name |-> "SaaS", quiet |-> FALSE], [name |-> "Fintech", quiet |-> FALSE],
    [name |-> "Healthcare", quiet |-> FALSE], [name |-> "Manufacturing", quiet |-> TRUE],
    [name |-> "Logistics", quiet |-> TRUE], [name |-> "Retail", quiet |-> FALSE],
    [name |-> "Professional Services", quiet |-> FALSE], [name |-> "Energy", quiet |-> TRUE],
    [name |-> "Education", quiet |-> FALSE], [name |-> "Media", quiet |-> FALSE],
    [name |-> "Nonprofit", quiet |-> TRUE]>>

COMPANY_PREFIXES ==
  <<"North", "Blue", "Prime", "Next", "Bright", "Summit", "Pinnacle", "River",
    "Cedar", "Apex", "Vertex", "Horizon", "Synergy", "Fusion", "Echo">>

COMPANY_SUFFIXES ==
  <<"Labs", "Systems", "Partners", "Solutions", "Logistics", "Dynamics",
    "Networks", "Consulting", "Ventures", "Industries", "Holdings", "Collective",
    "Works", "Group", "Innovations">>

CHANNEL_WEIGHTS ==
  <<[item |-> "call", weight |-> Divide(62, 100)],
    [item |-> "email", weight |-> Divide(28, 100)],
    [item |-> "linkedin", weight |-> Divide(10, 100)]>>

CALL_OUTCOME_WEIGHTS ==
  <<[outcome |-> "no_answer", weight |-> Divide(27, 100)],
    [outcome |-> "voicemail", weight |-> Divide(22, 100)],
    [outcome |-> "connected", weight |-> Divide(16, 100)],
    [outcome |-> "conversation", weight |-> Divide(14, 100)],
    [outcome |-> "meeting_booked", weight |-> Divide(7, 100)],
    [outcome |-> "meeting_held", weight |-> Divide(3, 100)],
    [outcome |-> "no_show", weight |-> Divide(5, 100)],
    [outcome |-> "qualified", weight |-> Divide(6, 100)]>>

EMAIL_OUTCOME_WEIGHTS ==
  <<[outcome |-> "no_answer", weight |-> Divide(48, 100)],
    [outcome |-> "voicemail", weight |-> Divide(0, 100)],
    [outcome |-> "connected", weight |-> Divide(10, 100)],
    [outcome |-> "conversation", weight |-> Divide(18, 100)],
    [outcome |-> "meeting_booked", weight |-> Divide(8, 100)],
    [outcome |-> "meeting_held", weight |-> Divide(2, 100)],
    [outcome |-> "no_show", weight |-> Divide(4, 100)],
    [outcome |-> "qualified", weight |-> Divide(10, 100)]>>

LINKEDIN_OUTCOME_WEIGHTS ==
  <<[outcome |-> "no_answer", weight |-> Divide(22, 100)],
    [outcome |-> "voicemail", weight |-> Divide(0, 100)],
    [outcome |-> "connected", weight |-> Divide(23, 100)],
    [outcome |-> "conversation", weight |-> Divide(24, 100)],
    [outcome |-> "meeting_booked", weight |-> Divide(12, 100)],
    [outcome |-> "meeting_held", weight |-> Divide(6, 100)],
    [outcome |-> "no_show", weight |-> Divide(4, 100)],
    [outcome |-> "qualified", weight |-> Divide(9, 100)]>>

OBJECTION_WEIGHTS ==
  <<[value |-> "timing", weight |-> Divide(42, 100)],
    [value |-> "budget", weight |-> Divide(32, 100)],
    [value |-> "authority", weight |-> Divide(10, 100)],
    [value |-> "need", weight |-> Divide(8, 100)],
    [value |-> "other", weight |-> Divide(8, 100)]>>

\* weights.reduce((sum, w) => sum + w, 0); s.i weights are added to s.sum.
RECURSIVE SumLoop(_)
SumLoop(s) ==
  IF s.i >= Len(s.weights) THEN s
  ELSE SumLoop([s EXCEPT !.sum = Plus(@, s.weights[s.i + 1]), !.i = @ + 1])

SumWeights(weights) == SumLoop([weights |-> weights, sum |-> Divide(0, 1), i |-> 0]).sum

\* rng() * total <= cumulative, for the numerator `value` of the draw
Reaches(value, total, cumulative) ==
  LET unit == (total.den \div Gcd(total.den, cumulative.den)) * cumulative.den
      scaled == total.num * (unit \div total.den)
      bound == cumulative.num * (unit \div cumulative.den)
      floor == MulShift(value, scaled, 16)
  IN  floor < bound \/ (floor = bound /\ imul(value, Word(0, scaled)) = Word(0, 0))

\* rng() < p, for the numerator `value` of the draw
Below(value, p) == MulShift(value, p.den, 16) < p.num

\* cumulative += weight; if (target <= cumulative) return ...: s.i weights
\* are added to s.cumulative.  The loop stops at the first weight that
\* reaches the draw, s.i being its index from 1, or past the last, with 0.
RECURSIVE ReachLoop(_)
ReachLoop(s) ==
  IF s.i > 0 /\ Reaches(s.value, s.total, s.cumulative) THEN s
  ELSE IF s.i >= Len(s.weights) THEN [s EXCEPT !.i = 0]
  ELSE ReachLoop([s EXCEPT !.cumulative = Plus(@, s.weights[s.i + 1]), !.i = @ + 1])

\* The index (from 1) of the first weight whose cumulative sum reaches the
\* draw, 0 when none does.
FirstReached(value, weights) ==
  ReachLoop([weights |-> weights, value |-> value, total |-> SumWeights(weights),
             cumulative |-> Divide(0, 1), i |-> 0]).i

\* Each of the operations below takes the state of the rng and returns it
\* advanced, as the field rng, beside its result, the field value.

\* The first option whose cumulative weight reaches the draw, or the last.
pickWeighted(rng, options) ==
  [[mulberry32(rng)
      EXCEPT !.value = FirstReached(@, [i \in 1..Len(options) |-> options[i].weight])]
      EXCEPT !.value = IF @ > 0 THEN options[@].item
                       ELSE IF options = <<>> THEN Null
                       ELSE options[Len(options)].item]

\* Math.floor(rng() * n)
randomBelow(rng, n) == [mulberry32(rng) EXCEPT !.value = MulShift(@, n, 16)]

Swap(arr, i, j) == [arr EXCEPT ![i] = arr[j], ![j] = arr[i]]

\* The loop of shuffle; s.i is the index i of the source, counted from 0,
\* s.arr its arr and s.list the list of the caller.
RECURSIVE ShuffleLoop(_)
ShuffleLoop(s) ==
  IF s.i <= 0 THEN s
  ELSE LET j == randomBelow(s.rng, s.i + 1)
       IN  ShuffleLoop([s EXCEPT !.arr = Swap(@, s.i + 1, j.value + 1), !.i = @ - 1,
                                 !.rng = j.rng])

shuffleInPlace(rng, list) ==
  LET done == ShuffleLoop([rng |-> rng, arr |-> list, list |-> list, i |-> Len(list) - 1])
  IN  [done EXCEPT !.list = done.arr]

\* const arr = [...list]: the list of the caller is returned as it was, as
\* the field list, beside the shuffled arr.
shuffle(rng, list) ==
  ShuffleLoop([rng |-> rng, arr |-> list, list |-> list, i |-> Len(list) - 1])

sample(rng, list) == [randomBelow(rng, Len(list)) EXCEPT !.value = list[@ + 1]]

\* names is the module's TEAM_NAMES: the teams are the field arr of the
\* result and TEAM_NAMES as the call leaves it the field list.
createTeams(rng, names) ==
  LET teamCount == randomBelow(rng, 2)
  IN  [shuffle(teamCount.rng, names) EXCEPT !.arr = SubSeq(@, 1, 2 + teamCount.value)]

\* pool is the module's INDUSTRY_POOL: the industries are the field arr of
\* the result and INDUSTRY_POOL as the call leaves it the field list.
createIndustries(rng, pool) ==
  LET count == randomBelow(rng, 3)
  IN  [shuffle(count.rng, pool) EXCEPT !.arr = SubSeq(@, 1, 6 + count.value)]

getOutcomeWeights(channel) ==
  CASE channel = "call" -> CALL_OUTCOME_WEIGHTS
    [] channel = "email" -> EMAIL_OUTCOME_WEIGHTS
    [] channel = "linkedin" -> LINKEDIN_OUTCOME_WEIGHTS
    [] OTHER -> CALL_OUTCOME_WEIGHTS

adjustOutcomeForIndustry(industry, baseWeights) ==
  IF ~industry.quiet THEN baseWeights
  ELSE [i \in 1..Len(baseWeights) |->
          LET entry == baseWeights[i]
          IN  IF entry.outcome \in {"meeting_booked", "meeting_held"}
              THEN [entry EXCEPT !.weight = Times(@, Divide(6, 10))]
              ELSE IF entry.outcome \in {"connected", "conversation"}
              THEN [entry EXCEPT !.weight = Times(@, Divide(12, 10))]
              ELSE entry]

normalizeWeights(weights) ==
  LET total == SumWeights([i \in 1..Len(weights) |-> weights[i].weight])
      divisor == IF total.num = 0 THEN Divide(1, 1) ELSE total
  IN  [i \in 1..Len(weights) |-> [weights[i] EXCEPT !.weight = Over(@, divisor)]]

randomInt(rng, min, max) == [randomBelow(rng, max - min + 1) EXCEPT !.value = @ + min]

\* date.getUTCDay(): day 0 is Monday 2024-01-08.
getUTCDay(date) == (date.day + 1) % 7

\* date.setUTCHours(hour, minute, second): the milliseconds stay.
setUTCHours(date, hour, minute, second) ==
  [day |-> date.day, ms |-> ((hour * 60 + minute) * 60 + second) * 1000 + (date.ms % 1000)]

IsPreferredDay(date) == getUTCDay(date) >= 2 /\ getUTCDay(date) <= 4

\* chosenDay of createEventTimestamp, as value: a preferred day when
\* usePreferred, the two draws being made only when the conjuncts before
\* them hold.
ChosenDay(rng, dateOptions, selectedDay) ==
  LET preferredDays == SelectSeq(dateOptions, IsPreferredDay)
  IN  IF IsPreferredDay(selectedDay) \/ Len(preferredDays) = 0
      THEN [rng |-> rng, value |-> selectedDay]
      ELSE IF Below(mulberry32(rng).value, Divide(7, 10))
      THEN [randomBelow(mulberry32(rng).rng, Len(preferredDays))
              EXCEPT !.value = preferredDays[@ + 1]]
      ELSE [mulberry32(rng) EXCEPT !.value = selectedDay]

\* const <name> = randomInt(rng, min, max): the local is added to those of s.
DrawLocal(s, name, min, max) ==
  LET drawn == randomInt(s.rng, min, max)
  IN  (name :> drawn.value) @@ [s EXCEPT !.rng = drawn.rng]

\* base.setUTCHours(hour, minute, Math.floor(rng() * 60)); return base, for
\* the day s.value and the locals hour and minute of s.
SetDrawnTime(s) ==
  [randomBelow(s.rng, 60) EXCEPT !.value = setUTCHours(s.value, s.hour, s.minute, @)]

createEventTimestamp(rng, dateOptions, outcome, selectedDay) ==
  IF outcome \in {"meeting_booked", "meeting_held", "qualified"}
  THEN SetDrawnTime(DrawLocal(DrawLocal(ChosenDay(rng, dateOptions, selectedDay),
                                        "hour", 10, 16), "minute", 0, 59))
  ELSE SetDrawnTime(DrawLocal(DrawLocal([rng |-> rng, value |-> selectedDay],
                                        "hour", 8, 18), "minute", 0, 59))

\* Mutant: the week starting on the Sunday on or before the date.
startOfWeekSunday(date) == [day |-> date.day - getUTCDay(date), ms |-> 0]

\* startOfWeek(date): getUTCDay counts from Sunday, (day + 6) % 7 from Monday.
startOfWeek(date) == [day |-> date.day - ((getUTCDay(date) + 6) % 7), ms |-> 0]

shouldAddObjection(rng, outcome) ==
  IF outcome \in {"conversation", "meeting_booked", "meeting_held"}
  THEN [mulberry32(rng) EXCEPT !.value = Below(@, Divide(45, 100))]
  ELSE IF outcome = "qualified"
  THEN [mulberry32(rng) EXCEPT !.value = Below(@, Divide(25, 100))]
  ELSE [rng |-> rng, value |-> FALSE]

\* The dates, as value, are [day, ms]; the first is the anchor plus the offset.
buildDateRange(rng) ==
  LET totalDays == randomBelow(rng, 8)
  IN  [randomInt(totalDays.rng, 0, 14)
         EXCEPT !.value = [i \in 1..(14 + totalDays.value) |-> [day |-> @ + i - 1, ms |-> 0]]]

buildDayWeights(dates) ==
  [i \in 1..Len(dates) |->
     LET day == getUTCDay(dates[i])
     IN  IF day >= 1 /\ day <= 4 THEN Divide(115, 100)
         ELSE IF day = 5 THEN Divide(90, 100)
         ELSE Divide(65, 100)]

\* String.prototype.padStart with a one-character filler
RECURSIVE padStart(_, _, _)
padStart(text, length, filler) ==
  IF Len(text) >= length THEN text ELSE padStart(<<filler>> \o text, length, filler)

\* The Map companiesByIndustry: for each industry name that has companies,
\* its companies in the order of the list.
GroupCompanies(companies) ==
  [name \in {companies[i].industry : i \in 1..Len(companies)} |->
     SelectSeq(companies, LAMBDA company : company.industry = name)]
\* ------------------------------------------------------------------ inputs

MaxEvents == 2

Leads == {"lead_100001", "lead_100002"}

Timestamps ==
  {[day |-> 0, ms |-> 0], [day |-> 0, ms |-> 43200000], [day |-> 2, ms |-> 0]}

EventIds ==
  <<"evt_00001", "evt_00002", "evt_00003", "evt_00004", "evt_00005",
    "evt_00006", "evt_00007", "evt_00008", "evt_00009">>

\* An event of the timing family: lead, timestamp and outcome vary.
TimingEvent(lead, timestamp, outcome) ==
  [event_id |-> "", lead_id |-> lead, timestamp |-> timestamp,
   week_start |-> [day |-> 0, ms |-> 0],
   sdr_id |-> "sdr_1", sdr_name |-> "Jordan Lee", team |-> "Outbound Alpha",
   company |-> "North Labs SaaS", industry |-> "SaaS",
   channel |-> "call", outcome |-> outcome, objection |-> Null]

TimingEvents ==
  {TimingEvent(l, t, o) : l \in Leads, t \in Timestamps, o \in Outcomes}

\* An event of the grouping family: the lead with its SDR, the channel and
\* the outcome vary; both leads belong to the same company.
Accounts ==
  {[lead |-> "lead_100001", sdr |-> 1], [lead |-> "lead_100002", sdr |-> 2]}

GroupingEvent(account, channel, outcome) ==
  [event_id |-> "", lead_id |-> account.lead,
   timestamp |-> [day |-> 1, ms |-> 43200000],
   week_start |-> [day |-> 0, ms |-> 0],
   sdr_id |-> DatasetSdrs[account.sdr].id, sdr_name |-> DatasetSdrs[account.sdr].name,
   team |-> DatasetSdrs[account.sdr].team,
   company |-> "North Labs SaaS", industry |-> "SaaS",
   channel |-> channel, outcome |-> outcome, objection |-> Null]

GroupingEvents ==
  {GroupingEvent(a, c, o) : a \in Accounts, c \in Channels, o \in Outcomes}

\* Event ids are unique: the i-th event of a list is numbered i (generator l.449).
Numbered(list) == [i \in 1..Len(list) |-> [list[i] EXCEPT !.event_id = EventIds[i]]]

SeqsUpTo(n, S) == UNION {[1..k -> S] : k \in 0..n}

TimingInputs == {Numbered(list) : list \in SeqsUpTo(MaxEvents, TimingEvents)}

GroupingInputs == {Numbered(list) : list \in SeqsUpTo(MaxEvents, GroupingEvents)}

\* The lists the pipeline health is computed for: the calls of the first
\* account, whose team takes every rate, and the emails of the second, whose
\* team has no rate at all while none of them is answered.
MaxHealthEvents == 4

AccountOf(sdr) == CHOOSE account \in Accounts : account.sdr = sdr

HealthEvents ==
  {GroupingEvent(AccountOf(1), "call", o) :
     o \in {"no_answer", "conversation", "no_show", "meeting_held", "qualified"}}
    \cup {GroupingEvent(AccountOf(2), "email", o) : o \in {"no_answer", "conversation"}}

HealthInputs == {Numbered(list) : list \in SeqsUpTo(MaxHealthEvents, HealthEvents)}

\* The dataset whose export the codec writes.
CsvDataset == [seed |-> <<"4", "2">>]

\* Values of a free-text column: plain, with the delimiter, with the quote
\* character, with white space at either end, blank, and with a line feed or
\* a carriage return inside.
FieldTexts ==
  {<<"N", "o", "r", "t", "h", " ", "L", "a", "b", "s">>, <<"a", ",", "b">>, <<"\"", ",">>, <<" ", "a">>, <<"a", " ">>, <<" ">>, <<"a", "\n", "b">>, <<"a", "\r", "b">>}

\* Where a FieldTexts value is placed, and the enumerated columns beside it:
\* the first column of a row that ends in a null objection, or a column in
\* the middle of a row that ends in an objection.
Placements ==
  {[column |-> "event_id", channel |-> <<"c", "a", "l", "l">>, outcome |-> <<"c", "o", "n", "n", "e", "c", "t", "e", "d">>,
    objection |-> Null],
   [column |-> "company", channel |-> <<"l", "i", "n", "k", "e", "d", "i", "n">>, outcome |-> <<"n", "o", "_", "s", "h", "o", "w">>,
    objection |-> Some(<<"b", "u", "d", "g", "e", "t">>)]}

\* An event as the codec sees it: each column holds its text.
CsvEvent(placement, text) ==
  [[event_id |-> <<"e", "v", "t", "_", "0", "0", "0", "0", "1">>, lead_id |-> <<"l", "e", "a", "d", "_", "1", "0", "0", "0", "0", "1">>,
    timestamp |-> <<"2", "0", "2", "4", "-", "0", "1", "-", "0", "9", "T", "1", "2", ":", "0", "0", ":", "0", "0", ".", "0", "0", "0", "Z">>,
    week_start |-> <<"2", "0", "2", "4", "-", "0", "1", "-", "0", "8">>,
    sdr_id |-> <<"s", "d", "r", "_", "1">>, sdr_name |-> <<"J", "o", "r", "d", "a", "n", " ", "L", "e", "e">>, team |-> <<"O", "u", "t", "b", "o", "u", "n", "d", " ", "A", "l", "p", "h", "a">>,
    company |-> <<"N", "o", "r", "t", "h", " ", "L", "a", "b", "s", " ", "S", "a", "a", "S">>, industry |-> <<"S", "a", "a", "S">>,
    channel |-> placement.channel, outcome |-> placement.outcome,
    objection |-> placement.objection] EXCEPT ![placement.column] = text]

CsvEvents == {CsvEvent(p, t) : p \in Placements, t \in FieldTexts}

CsvInputs == SeqsUpTo(MaxEvents, CsvEvents)



\* The files the import reads.  A file is written from a table: the lines
\* before the header, the columns of the header in their order, the rows,
\* each giving a text to every column of the schema, and the lines after the
\* rows.
MaxRows == 2

ImportRow(lead, channel, outcome, objection) ==
  [event_id |-> <<"e", "v", "t", "_", "0", "0", "0", "0">> \o lead, lead_id |-> <<"l", "e", "a", "d", "_", "1", "0", "0", "0", "0">> \o lead,
   timestamp |-> <<"2", "0", "2", "4", "-", "0", "1", "-", "0", "9", "T", "1", "2", ":", "0", "0", ":", "0", "0", ".", "0", "0", "0", "Z">>, week_start |-> <<"2", "0", "2", "4", "-", "0", "1", "-", "0", "8">>,
   sdr_id |-> <<"s", "d", "r", "_">> \o lead,
   sdr_name |-> IF lead = <<"1">> THEN <<"J", "o", "r", "d", "a", "n", " ", "L", "e", "e">> ELSE <<"T", "a", "y", "l", "o", "r", " ", "P", "a", "t", "e", "l">>,
   team |-> IF lead = <<"1">> THEN <<"O", "u", "t", "b", "o", "u", "n", "d", " ", "A", "l", "p", "h", "a">> ELSE <<"P", "i", "p", "e", "l", "i", "n", "e", " ", "P", "r", "o", "s">>,
   company |-> <<"N", "o", "r", "t", "h", " ", "L", "a", "b", "s", ",", " ", "S", "a", "a", "S">>, industry |-> <<"S", "a", "a", "S">>,
   channel |-> channel, outcome |-> outcome, objection |-> objection]

\* Two rows the schema admits, one with white space around its objection;
\* rows with a channel, an outcome or an objection outside its domain; rows
\* that lack a required value, one of them holding white space only.
ImportRows ==
  {ImportRow(<<"1">>, <<"c", "a", "l", "l">>, <<"c", "o", "n", "n", "e", "c", "t", "e", "d">>, <<>>),
   ImportRow(<<"2">>, <<"e", "m", "a", "i", "l">>, <<"q", "u", "a", "l", "i", "f", "i", "e", "d">>, <<" ", "b", "u", "d", "g", "e", "t", " ">>),
   ImportRow(<<"1">>, <<"f", "a", "x">>, <<"c", "o", "n", "n", "e", "c", "t", "e", "d">>, <<>>),
   ImportRow(<<"2">>, <<"c", "a", "l", "l">>, <<"w", "o", "n">>, <<"p", "r", "i", "c", "e">>),
   ImportRow(<<"1">>, <<"l", "i", "n", "k", "e", "d", "i", "n">>, <<"n", "o", "_", "s", "h", "o", "w">>, <<"B", "u", "d", "g", "e", "t">>),
   [ImportRow(<<"2">>, <<"c", "a", "l", "l">>, <<"v", "o", "i", "c", "e", "m", "a", "i", "l">>, <<>>) EXCEPT !.lead_id = <<>>],
   [ImportRow(<<"1">>, <<"e", "m", "a", "i", "l">>, <<"c", "o", "n", "v", "e", "r", "s", "a", "t", "i", "o", "n">>, <<"n", "e", "e", "d">>) EXCEPT !.team = <<" ">>]}

Reversed(list) == [i \in DOMAIN list |-> list[Len(list) + 1 - i]]

\* The headers: the schema in its order, in the reverse order, behind a
\* column the schema does not know, without outcome, and without event_id
\* and objection.
ImportColumns ==
  {CSV_COLUMNS,
   Reversed(CSV_COLUMNS),
   <<"notes">> \o CSV_COLUMNS,
   SelectSeq(CSV_COLUMNS, LAMBDA column : column # "outcome"),
   SelectSeq(CSV_COLUMNS, LAMBDA column : column \notin {"event_id", "objection"})}

\* Before the header: nothing, or a seed line ending in a carriage return, a
\* blank line and a comment.  After the rows: nothing, or a summary line
\* that is not JSON.
ImportLeads == {<<>>, <<<<"#", " ", "D", "A", "T", "A", "S", "E", "T", "_", "S", "E", "E", "D", "=", "4", "2", "\r">>, <<>>, <<"#", " ", "e", "d", "i", "t", "e", "d", " ", "b", "y", " ", "h", "a", "n", "d">>>>}

ImportTails == {<<>>, <<<<"#", " ", "D", "A", "S", "H", "B", "O", "A", "R", "D", "_", "S", "U", "M", "M", "A", "R", "Y", "_", "J", "S", "O", "N", "=", "{">>>>}

ImportFiles ==
  [lead : ImportLeads, columns : ImportColumns, rows : SeqsUpTo(MaxRows, ImportRows),
   tail : ImportTails]

\* The text of a column name and of a value of a row in the file.
CellText(column) == IF column \in DOMAIN ColumnText THEN ColumnText[column] ELSE <<"n", "o", "t", "e", "s">>

ValueText(row, column) == IF column \in DOMAIN row THEN row[column] ELSE <<"n", "/", "a">>

\* One line of the file: the cells in double quotes, separated by commas.
FileLine(cells) ==
  join([c \in DOMAIN cells |-> <<"\"">> \o EscapeQuotes(cells[c]) \o <<"\"">>], <<",">>)

\* The text of the file, its lines ending in a line feed.
FileText(table) ==
  join(table.lead
         \o <<FileLine([c \in DOMAIN table.columns |-> CellText(table.columns[c])])>>
         \o [r \in DOMAIN table.rows |->
               FileLine([c \in DOMAIN table.columns |->
                           ValueText(table.rows[r], table.columns[c])])]
         \o table.tail,
       <<"\n">>)

\* The store: the seed it is reseeded with, the filter updates and the date
\* range the tabs set, and the files imported: one with a seed line and two
\* rows, one with the same row twice behind a column the schema does not
\* know, the second time with white space around its names, and one the
\* parser rejects at its second row.
StoreSeeds == {[number |-> 42]}

\* const isActive = filters.companies.length === 1 && filters.companies[0] === company;
\* setFilters({ companies: isActive ? [] : [company] })
toggleCompany(state, company) ==
  [companies |-> IF state.filters.companies = <<company>> THEN <<>> ELSE <<company>>]

FilterUpdates(state) ==
  {[teams |-> <<state.dataset.teams[i]>>] : i \in DOMAIN Slice(state.dataset.teams, 1)}
    \cup {[channels |-> <<"call">>]}
    \cup {toggleCompany(state, state.derivedEvents[i].company) :
            i \in DOMAIN Slice(state.derivedEvents, 1)}

DateRanges == {[start |-> Some([day |-> 3]), end |-> Some([day |-> 12, ms |-> 0])]}

FirstRow == ImportRow(<<"1">>, <<"c", "a", "l", "l">>, <<"c", "o", "n", "n", "e", "c", "t", "e", "d">>, <<>>)

SecondRow == ImportRow(<<"2">>, <<"e", "m", "a", "i", "l">>, <<"q", "u", "a", "l", "i", "f", "i", "e", "d">>, <<" ", "b", "u", "d", "g", "e", "t", " ">>)

StoreFiles ==
  {[lead |-> <<<<"#", " ", "D", "A", "T", "A", "S", "E", "T", "_", "S", "E", "E", "D", "=", "4", "2", "\r">>, <<>>, <<"#", " ", "e", "d", "i", "t", "e", "d", " ", "b", "y", " ", "h", "a", "n", "d">>>>, columns |-> CSV_COLUMNS,
    rows |-> <<FirstRow, SecondRow>>, tail |-> <<>>],
   [lead |-> <<>>, columns |-> <<"notes">> \o CSV_COLUMNS,
    rows |-> <<FirstRow, [FirstRow EXCEPT !.sdr_id = <<" ", "s", "d", "r", "_", "1">>, !.team = <<"O", "u", "t", "b", "o", "u", "n", "d", " ", "A", "l", "p", "h", "a", " ">>,
                                          !.company = <<" ", "N", "o", "r", "t", "h", " ", "L", "a", "b", "s", ",", " ", "S", "a", "a", "S", " ">>,
                                          !.industry = <<"S", "a", "a", "S", "\t">>]>>,
    tail |-> <<>>],
   [lead |-> <<>>, columns |-> CSV_COLUMNS,
    rows |-> <<FirstRow, [SecondRow EXCEPT !.lead_id = <<>>]>>, tail |-> <<>>]}

\* The calls of generateDataset a behaviour makes, and the iterations of the
\* event loop the model follows in each (the loop runs totalEvents times).
MaxCalls == 2

MaxGenEvents == 2

\* The seeds: a number, the string of its digits, the empty string, a word.
Seeds ==
  {[number |-> 42], [string |-> <<"4", "2">>], [string |-> <<>>], [string |-> <<"s", "e", "e", "d", "-", "9">>],
   [number |-> 6]}

\* ------------------------------------------------------------------ actions

\* The generator module as loaded, no call made.
Loaded ==
  /\ TEAM_NAMES = TeamNamesAtLoad
  /\ INDUSTRY_POOL = IndustryPoolAtLoad
  /\ frame = Null
  /\ returned = <<>>

\* The application before its first render.
\* No component is mounted.
NoComponent ==
  /\ tabs = <<>>
  /\ defaultTab = <<>>
  /\ activeTab = Null
  /\ hash = <<>>
  /\ series = <<>>
  /\ selectedSdrs = <<>>

Unmounted ==
  /\ view = Null /\ file = Null /\ store = Null /\ toast = Null /\ caller = "none"
  /\ NoComponent

InitWith(inputs) ==
  /\ events \in inputs
  /\ derivedEvents = <<>>
  /\ summaries = Null
  /\ csv = <<>>
  /\ parsed = Null
  /\ Loaded
  /\ Unmounted
  /\ pc = "input"

\* const derivedEvents = deriveEvents(dataset.events)
Derive ==
  /\ pc = "input"
  /\ LET call == deriveEventsCall(events)
     IN  /\ events' = call.events
         /\ derivedEvents' = call.result
  /\ pc' = "derived"
  /\ UNCHANGED <<summaries, csv, parsed, generatorVars, appVars>>

\* buildDashboardSummaries(derivedEvents, dataset)
Summarise ==
  /\ pc = "derived"
  /\ summaries' = Some(buildDashboardSummaries(derivedEvents))
  /\ pc' = "summarised"
  /\ UNCHANGED <<events, derivedEvents, csv, parsed, generatorVars, appVars>>

\* The deriver on lists whose leads, timestamps and outcomes vary.
Init == InitWith(TimingInputs)

Next == Derive

Spec == Init /\ [][Next]_vars

\* The deriver and the summary builder on lists whose leads, SDRs, channels
\* and outcomes vary.
InitSummary == InitWith(GroupingInputs)

\* Events of more companies than a funnel list keeps: one lead per company,
\* dialled without answer or qualified, and at most one further lead dialled
\* at one of the companies.
MaxGroups == 6

FunnelCompanies ==
  <<"North Labs SaaS", "Blue Systems Fintech", "Echo Group Logistics",
    "Apex Cloud Retail", "Delta Works Energy", "Cedar Data Media",
    "Harbor Tech Health">>

FunnelLeads ==
  <<"lead_100001", "lead_100002", "lead_100003", "lead_100004", "lead_100005",
    "lead_100006", "lead_100007", "lead_100008">>

FunnelEvent(group, lead, outcome) ==
  [GroupingEvent([lead |-> FunnelLeads[lead], sdr |-> 1], "call", outcome)
     EXCEPT !.company = FunnelCompanies[group]]

FunnelInputs ==
  {Numbered([g \in 1..MaxGroups |-> FunnelEvent(g, g, outcomes[g])] \o further) :
     outcomes \in [1..MaxGroups -> {"no_answer", "qualified"}],
     further \in {<<>>} \cup
                 {<<FunnelEvent(g, MaxGroups + 1, "no_answer")>> : g \in 1..MaxGroups}}


NextSummary == Derive \/ Summarise

SpecSummary == InitSummary /\ [][NextSummary]_vars

InitFunnel == InitWith(FunnelInputs)

SpecFunnel == InitFunnel /\ [][NextSummary]_vars

\* The useMemo of the PipelineHealth component for the filteredEvents it
\* reads from the store; the lists shown are cut to 10 teams and 12 SDRs.
RenderPipelineHealth(filteredEvents) ==
  view' =
    IF Len(filteredEvents) = 0
    THEN Some([overallScore |-> Null, overallBreakdowns |-> <<>>,
               teamEntities |-> <<>>, sdrEntities |-> <<>>])
    ELSE Some([overallScore |->
                 computePipelineHealthScore(buildRateBreakdowns(filteredEvents)),
               overallBreakdowns |-> buildRateBreakdowns(filteredEvents),
               teamEntities |->
                 Slice(createEntityPipelineHealth(filteredEvents, "team"), 10),
               sdrEntities |->
                 Slice(createEntityPipelineHealth(filteredEvents, "sdr"), 12)])

\* The tab rendered over a store without filters, whose filteredEvents are
\* its derivedEvents.
RenderHealth ==
  /\ pc = "summarised"
  /\ RenderPipelineHealth(derivedEvents)
  /\ pc' = "rendered"
  /\ UNCHANGED <<pipelineVars, generatorVars, file, store, toast, caller, uiVars>>

\* The deriver, the summary builder and the Pipeline Health tab on lists of
\* up to MaxHealthEvents events of two teams.
InitHealth == InitWith(HealthInputs)

NextHealth == Derive \/ Summarise \/ RenderHealth

SpecHealth == InitHealth /\ [][NextHealth]_vars

\* const { csv } = serializeDashboardCsv(events, dataset)
Export ==
  /\ pc = "input"
  /\ csv' = serializeDashboardCsv(events, CsvDataset).csv
  /\ pc' = "exported"
  /\ UNCHANGED <<events, derivedEvents, summaries, parsed, generatorVars, appVars>>

\* const parsed = parseDashboardCsv(csv)
Import ==
  /\ pc = "exported"
  /\ parsed' = Some(parseDashboardCsv(csv))
  /\ pc' = "imported"
  /\ UNCHANGED <<events, derivedEvents, summaries, csv, generatorVars, appVars>>

\* The CSV codec on lists whose free-text and enumerated columns vary.
InitCsv == InitWith(CsvInputs)

NextCsv == Export \/ Import

SpecCsv == InitCsv /\ [][NextCsv]_vars

\* A file chosen for import, its text read.
InitParse ==
  /\ file \in {Some(table) : table \in ImportFiles}
  /\ csv = FileText(file[1])
  /\ events = <<>>
  /\ derivedEvents = <<>>
  /\ summaries = Null
  /\ parsed = Null
  /\ Loaded
  /\ view = Null
  /\ store = Null
  /\ toast = Null
  /\ caller = "none"
  /\ NoComponent
  /\ pc = "exported"

NextParse == Import

\* The parser on files with valid and invalid headers and rows.
SpecParse == InitParse /\ [][NextParse]_vars

\* pickWeighted on its own: option lists of up to MaxOptions options of
\* weight 0, 1/4 or 1, and states of the rng whose next draw is 0, 2^-32,
\* 1/4, 1 - 2^-32 and the first draw of seed 42.
MaxOptions == 3

PickItems == <<"first", "second", "third", "fourth">>

PickWeights == {Divide(0, 1), Divide(1, 4), Divide(1, 1)}

PickOptions ==
  UNION {{[i \in 1..n |-> [item |-> PickItems[i], weight |-> weights[i]]] :
            weights \in [1..n -> PickWeights]} : n \in 1..MaxOptions}

PickStates ==
  {Word(37588, 34315), Word(34283, 63739), Word(14514, 51816), Word(6014, 10842),
   createRng([number |-> 42])}

InitPick ==
  /\ events = <<>>
  /\ derivedEvents = <<>>
  /\ summaries = Null
  /\ csv = <<>>
  /\ parsed = Null
  /\ TEAM_NAMES = TeamNamesAtLoad
  /\ INDUSTRY_POOL = IndustryPoolAtLoad
  /\ frame \in [rng : PickStates, options : PickOptions, picked : {Null}]
  /\ returned = <<>>
  /\ Unmounted
  /\ pc = "pickWeighted"

\* frame.picked is what pickWeighted(frame.rng, frame.options) returns.
CallPickWeighted ==
  /\ pc = "pickWeighted"
  /\ \E call \in {pickWeighted(frame.rng, frame.options)} :
       frame' = [frame EXCEPT !.picked = Some(call.value), !.rng = call.rng]
  /\ returned' = Append(returned, frame)
  /\ pc' = "picked"
  /\ UNCHANGED <<pipelineVars, TEAM_NAMES, INDUSTRY_POOL, appVars>>

NextPick == CallPickWeighted

SpecPick == InitPick /\ [][NextPick]_vars

\* Files with and without the metadata lines of an export: no line, the
\* three lines serializeDashboardCsv writes for seed 42, the summary line
\* alone, the summary line of seed 7 over the seed line of seed 42, and the
\* seed line alone.
SummaryLine(seed) ==
  <<"#", " ">> \o SUMMARY_PREFIX \o JsonStringify(CsvSummaries([seed |-> seed]))

SeedLine(seed) == <<"#", " ">> \o SEED_PREFIX \o seed

GeneratedAtLine ==
  <<"#", " ", "G", "E", "N", "E", "R", "A", "T", "E", "D", "_", "A", "T", "=">>
    \o CsvSummaries([seed |-> <<>>]).generatedAt

PrepareLeads ==
  {<<>>,
   <<SummaryLine(<<"4", "2">>), SeedLine(<<"4", "2">>), GeneratedAtLine>>,
   <<SummaryLine(<<"4", "2">>)>>,
   <<SummaryLine(<<"7">>), SeedLine(<<"4", "2">>)>>,
   <<SeedLine(<<"4", "2">>)>>}

PrepareRows == {FirstRow, SecondRow, [SecondRow EXCEPT !.lead_id = <<>>]}

PrepareFiles ==
  [lead : PrepareLeads, columns : {CSV_COLUMNS, <<"notes">> \o CSV_COLUMNS},
   rows : SeqsUpTo(MaxRows, PrepareRows), tail : {<<>>}]

InitPrepare ==
  /\ file \in {Some(table) : table \in PrepareFiles}
  /\ csv = FileText(file[1])
  /\ events = <<>>
  /\ derivedEvents = <<>>
  /\ summaries = Null
  /\ parsed = Null
  /\ Loaded
  /\ view = Null
  /\ store = Null
  /\ toast = Null
  /\ caller = "none"
  /\ NoComponent
  /\ pc = "exported"

\* parsed' is what prepareDatasetFromCsv(csv) returns or throws.
Prepare ==
  /\ pc = "exported"
  /\ parsed' = Some(prepareDatasetFromCsv(csv))
  /\ pc' = "prepared"
  /\ UNCHANGED <<events, derivedEvents, summaries, csv, generatorVars, appVars>>

NextPrepare == Prepare

SpecPrepare == InitPrepare /\ [][NextPrepare]_vars

\* ------------------------------------------------- components/Tabs.tsx
\* A text is the sequence of its parts: a tab id is <<"funnels">>, the hash
\* of the URL is <<>> or <<"#", "funnels">>, and '' is <<>>.

\* typeof window !== 'undefined'
isBrowser == TRUE

\* text.replace('#', ''): the first "#" of the text is removed.
ReplaceFirstHash(text) ==
  IF \E i \in DOMAIN text : text[i] = "#"
  THEN SubSeq(text, 1, (CHOOSE i \in DOMAIN text :
                          text[i] = "#" /\ \A j \in 1..(i - 1) : text[j] # "#") - 1)
         \o SubSeq(text, (CHOOSE i \in DOMAIN text :
                            text[i] = "#" /\ \A j \in 1..(i - 1) : text[j] # "#") + 1,
                   Len(text))
  ELSE text

getHashValue == IF ~isBrowser THEN <<>> ELSE ReplaceFirstHash(hash)

\* new Set(tabs.map((tab) => tab.id))
validTabIds == {tabs[i] : i \in DOMAIN tabs}

resolveInitialTab ==
  IF getHashValue # <<>> /\ getHashValue \in validTabIds THEN getHashValue
  ELSE IF defaultTab \in validTabIds THEN defaultTab
  ELSE IF tabs # <<>> THEN tabs[1] ELSE <<>>

\* window.location.hash after updateHash(tabId): replaceState(null, '',
\* `${base}#${tabId}`), or nothing for an empty id.
updateHash(tabId) ==
  IF ~isBrowser \/ tabId = <<>> THEN hash ELSE <<"#">> \o tabId

\* Mutant: the hash is left as it is when it names no tab.
syncWithHashKeepingHash ==
  IF ~isBrowser THEN [activeTab |-> activeTab, hash |-> hash]
  ELSE IF getHashValue # <<>> /\ getHashValue \in validTabIds
  THEN [activeTab |-> Some(getHashValue), hash |-> hash]
  ELSE [activeTab |-> Some(resolveInitialTab), hash |-> hash]

\* activeTab and window.location.hash after syncWithHash().
syncWithHash ==
  IF ~isBrowser THEN [activeTab |-> activeTab, hash |-> hash]
  ELSE IF getHashValue # <<>> /\ getHashValue \in validTabIds
  THEN [activeTab |-> Some(getHashValue), hash |-> hash]
  ELSE [activeTab |-> Some(resolveInitialTab),
        hash |-> IF getHashValue = <<>> \/ getHashValue # resolveInitialTab
                 THEN updateHash(resolveInitialTab)
                 ELSE hash]

\* The tab lists, the default tabs (one of them no tab of any list) and the
\* hashes of the URL: none, tabs, no tab, and a tab behind a second "#".
TabLists ==
  {<<<<"leadership">>>>,
   <<<<"leadership">>, <<"funnels">>>>,
   <<<<"funnels">>, <<"leadership">>, <<"no-show">>>>}

DefaultTabs == {<<"leadership">>, <<"overview">>}

Hashes ==
  {<<>>, <<"#", "leadership">>, <<"#", "funnels">>, <<"#", "no-show">>,
   <<"#", "pricing">>, <<"#", "#", "funnels">>}

InitTabs ==
  /\ events = <<>>
  /\ derivedEvents = <<>>
  /\ summaries = Null
  /\ csv = <<>>
  /\ parsed = Null
  /\ Loaded
  /\ view = Null /\ file = Null /\ store = Null /\ toast = Null /\ caller = "none"
  /\ tabs \in TabLists
  /\ defaultTab \in DefaultTabs
  /\ activeTab = Null
  /\ hash \in Hashes
  /\ series = <<>>
  /\ selectedSdrs = <<>>
  /\ pc = "unmounted"

\* The component is mounted: useState(() => resolveInitialTab()), then the
\* effect runs syncWithHash() and registers it for hashchange.
Mount ==
  /\ pc = "unmounted"
  /\ activeTab' = syncWithHash.activeTab
  /\ hash' = syncWithHash.hash
  /\ pc' = "idle"
  /\ UNCHANGED <<pipelineVars, generatorVars, view, file, store, toast, caller,
                 tabs, defaultTab, series, selectedSdrs>>

\* onClick={() => handleSelect(tab.id)} of the button of a tab.
HandleSelect(tabId) ==
  /\ pc \in {"idle", "hashchange"}
  /\ tabId \in validTabIds
  /\ activeTab' = Some(tabId)
  /\ hash' = updateHash(tabId)
  /\ UNCHANGED <<pipelineVars, generatorVars, view, file, store, toast, caller,
                 tabs, defaultTab, series, selectedSdrs, pc>>

\* The hash of the URL is changed from outside the component (a link, the
\* address bar, the history): the browser queues a hashchange event.
Navigate(fragment) ==
  /\ pc \in {"idle", "hashchange"}
  /\ fragment # hash
  /\ hash' = fragment
  /\ pc' = "hashchange"
  /\ UNCHANGED <<pipelineVars, generatorVars, view, file, store, toast, caller,
                 tabs, defaultTab, activeTab, series, selectedSdrs>>

\* window.addEventListener('hashchange', syncWithHash): the listener runs.
HashChange ==
  /\ pc = "hashchange"
  /\ activeTab' = syncWithHash.activeTab
  /\ hash' = syncWithHash.hash
  /\ pc' = "idle"
  /\ UNCHANGED <<pipelineVars, generatorVars, view, file, store, toast, caller,
                 tabs, defaultTab, series, selectedSdrs>>

NextTabs ==
  \/ Mount
  \/ \E tabId \in validTabIds : HandleSelect(tabId)
  \/ \E fragment \in Hashes : Navigate(fragment)
  \/ HashChange

SpecTabs == InitTabs /\ [][NextTabs]_vars

\* --------------------------- Connect->Conversation trends (unnamed/part_000)

\* Array.from(new Set(filteredEvents.map((event) => event.week_start))).sort(
\*   (a, b) => new Date(a).getTime() - new Date(b).getTime())
RECURSIVE SortedWeeks(_)
SortedWeeks(weeks) ==
  IF weeks = {} THEN <<>>
  ELSE <<CHOOSE w \in weeks : \A v \in weeks : getTime(w) <= getTime(v)>>
         \o SortedWeeks(weeks \ {CHOOSE w \in weeks : \A v \in weeks : getTime(w) <= getTime(v)})

WeekSet(list) == SortedWeeks({list[i].week_start : i \in DOMAIN list})

\* The entry series.push adds for one SDR: its rate of every week and its
\* connects.  The name is nameLookup.get(sdrId) ?? the sdr_name of the first
\* of its events ?? sdrId.
SeriesEntry(group, weeks) ==
  [id |-> group.id,
   name |-> SdrName(group.id, group.events[1]),
   weeks |-> [w \in DOMAIN weeks |->
                computeConnectToConversationRate(
                  SelectSeq(group.events, LAMBDA event : event.week_start = weeks[w])).rate],
   totalConnects |-> CountWhere(group.events, {"is_connected"})]

\* The comparator of series.sort.
CompareSeries(a, b) ==
  IF b.totalConnects # a.totalConnects THEN b.totalConnects - a.totalConnects
  ELSE localeCompare(a.name, b.name)

RECURSIVE InsertSeries(_, _)
InsertSeries(sorted, entry) ==
  IF sorted = <<>> THEN <<entry>>
  ELSE IF CompareSeries(Head(sorted), entry) > 0
       THEN <<entry>> \o sorted
       ELSE <<Head(sorted)>> \o InsertSeries(Tail(sorted), entry)

RECURSIVE SortSeries(_)
SortSeries(list) ==
  IF list = <<>> THEN <<>>
  ELSE InsertSeries(SortSeries(SubSeq(list, 1, Len(list) - 1)), list[Len(list)])

SeriesOfGroups(grouped, weeks) ==
  SortSeries([g \in DOMAIN grouped |-> SeriesEntry(grouped[g], weeks)])

buildSdrSeries(list, weeks) ==
  SeriesOfGroups(GroupEvents(<<>>, list, [i \in DOMAIN list |-> list[i].sdr_id]), weeks)

\* The series of the useMemo of C2CTrends for the filtered events of the
\* store.
SeriesOf(filteredEvents) ==
  IF Len(filteredEvents) = 0 THEN <<>>
  ELSE buildSdrSeries(filteredEvents, WeekSet(filteredEvents))

\* Mutant: the ids kept from the previous selection are filled up to three.
SelectedForSeriesFilled(items, prev) ==
  IF Len(items) = 0 THEN <<>>
  ELSE IF Len(SelectSeq(prev, LAMBDA id : \E i \in DOMAIN items : items[i].id = id)) > 0
  THEN SelectSeq(prev, LAMBDA id : \E i \in DOMAIN items : items[i].id = id)
         \o Slice([i \in DOMAIN items |-> items[i].id], 3)
  ELSE Slice([i \in DOMAIN items |-> items[i].id], 3)

\* selectedSdrs after the effect on [series]: the ids of prev that the
\* series has, or the first three ids of the series when it has none of
\* them; [] for no series.
SelectedForSeries(items, prev) ==
  IF Len(items) = 0 THEN <<>>
  ELSE IF Len(SelectSeq(prev, LAMBDA id : \E i \in DOMAIN items : items[i].id = id)) > 0
  THEN SelectSeq(prev, LAMBDA id : \E i \in DOMAIN items : items[i].id = id)
  ELSE Slice([i \in DOMAIN items |-> items[i].id], 3)

\* Mutant: a fourth SDR is added.
handleToggleUncapped(prev, sdrId) ==
  IF Includes(prev, sdrId) THEN SelectSeq(prev, LAMBDA id : id # sdrId)
  ELSE Append(prev, sdrId)

\* selectedSdrs after handleToggle(sdrId).
handleToggle(prev, sdrId) ==
  IF Includes(prev, sdrId) THEN SelectSeq(prev, LAMBDA id : id # sdrId)
  ELSE IF Len(prev) >= 3 THEN prev
  ELSE Append(prev, sdrId)

\* The filtered events the tab is given: of each of MaxSdrs SDRs no event
\* or a call that connected, and of the first SDR also a call without
\* answer.  The first two SDRs are in the directory of the dataset, the
\* others are named by their events.
MaxSdrs == 4

TrendSdrs ==
  <<[id |-> "sdr_1", name |-> "Jordan Lee", lead |-> "lead_100001"],
    [id |-> "sdr_2", name |-> "Taylor Patel", lead |-> "lead_100002"],
    [id |-> "sdr_3", name |-> "Avery Kim", lead |-> "lead_100003"],
    [id |-> "sdr_4", name |-> "Riley Chen", lead |-> "lead_100004"],
    [id |-> "sdr_5", name |-> "Morgan Diaz", lead |-> "lead_100005"]>>

TrendEvent(sdr, outcome) ==
  [GroupingEvent([lead |-> TrendSdrs[sdr].lead, sdr |-> 1], "call", outcome)
     EXCEPT !.sdr_id = TrendSdrs[sdr].id, !.sdr_name = TrendSdrs[sdr].name]

RECURSIVE TrendList(_, _)
TrendList(outcomes, sdr) ==
  IF sdr > MaxSdrs THEN <<>>
  ELSE (IF outcomes[sdr] = "none" THEN <<>> ELSE <<TrendEvent(sdr, outcomes[sdr])>>)
         \o TrendList(outcomes, sdr + 1)

TrendInputs ==
  {deriveEvents(Numbered(TrendList(outcomes, 1))) :
     outcomes \in {f \in [1..MaxSdrs -> {"none", "no_answer", "connected"}] :
                     \A sdr \in 2..MaxSdrs : f[sdr] # "no_answer"}}

InitTrends ==
  /\ events = <<>>
  /\ derivedEvents = <<>>
  /\ summaries = Null
  /\ csv = <<>>
  /\ parsed = Null
  /\ Loaded
  /\ view = Null /\ file = Null /\ store = Null /\ toast = Null /\ caller = "none"
  /\ tabs = <<>>
  /\ defaultTab = <<>>
  /\ activeTab = Null
  /\ hash = <<>>
  /\ series \in {SeriesOf(filteredEvents) : filteredEvents \in TrendInputs}
  /\ selectedSdrs = <<>>
  /\ pc = "effect"

\* The filtered events of the store change: the tab renders with the series
\* of the new events, and the effect on [series] is pending.
ChangeFilteredEvents(filteredEvents) ==
  /\ pc = "idle"
  /\ series' = SeriesOf(filteredEvents)
  /\ pc' = "effect"
  /\ UNCHANGED <<pipelineVars, generatorVars, view, file, store, toast, caller,
                 tabs, defaultTab, activeTab, hash, selectedSdrs>>

\* useEffect(() => { ... }, [series])
SeriesEffect ==
  /\ pc = "effect"
  /\ selectedSdrs' = SelectedForSeries(series, selectedSdrs)
  /\ pc' = "idle"
  /\ UNCHANGED <<pipelineVars, generatorVars, view, file, store, toast, caller,
                 tabs, defaultTab, activeTab, hash, series>>

\* handleToggle(item.id) for an item of the series.
HandleToggle(sdrId) ==
  /\ pc = "idle"
  /\ \E i \in DOMAIN series : series[i].id = sdrId
  /\ selectedSdrs' = handleToggle(selectedSdrs, sdrId)
  /\ UNCHANGED <<pipelineVars, generatorVars, view, file, store, toast, caller,
                 tabs, defaultTab, activeTab, hash, series, pc>>

NextTrends ==
  \/ \E filteredEvents \in TrendInputs : ChangeFilteredEvents(filteredEvents)
  \/ SeriesEffect
  \/ \E sdr \in 1..MaxSdrs : HandleToggle(TrendSdrs[sdr].id)

SpecTrends == InitTrends /\ [][NextTrends]_vars

\* generateDataset(seed), statement by statement and, in its loops, iteration
\* by iteration; frame holds the locals of the running call and of the
\* function it is in, Null being a local not assigned yet.  A template
\* literal is the sequence of its parts, a number among them being the
\* sequence of its digits.

\* const rng = createRng(seed)
CallGenerateDataset(seed) ==
  /\ pc = "idle"
  /\ Len(returned) < MaxCalls
  /\ frame' = [seed |-> seed, rng |-> createRng(seed), teams |-> <<>>,
               industries |-> <<>>, companies |-> <<>>, index |-> 0, perIndustry |-> 0,
               sdrs |-> <<>>, sdrCount |-> 0, dates |-> <<>>, dayWeights |-> <<>>,
               companiesByIndustry |-> <<>>, totalEvents |-> 0, events |-> <<>>, i |-> 0,
               selectedDay |-> Null, sdr |-> Null, industry |-> Null, company |-> Null,
               channel |-> Null, outcome |-> Null, timestamp |-> Null, objection |-> Null]
  /\ pc' = "createTeams"
  /\ UNCHANGED <<pipelineVars, TEAM_NAMES, INDUSTRY_POOL, returned>>

\* generateDataset(seed) called from outside the store
GenerateDataset(seed) == CallGenerateDataset(seed) /\ UNCHANGED appVars

\* const teams = createTeams(rng)
CallCreateTeams ==
  /\ pc = "createTeams"
  /\ \E call \in {createTeams(frame.rng, TEAM_NAMES)} :
       /\ frame' = [frame EXCEPT !.rng = call.rng, !.teams = call.arr]
       /\ TEAM_NAMES' = call.list
  /\ pc' = "createIndustries"
  /\ UNCHANGED <<pipelineVars, INDUSTRY_POOL, returned, appVars>>

\* const industries = createIndustries(rng); createCompanies is entered
CallCreateIndustries ==
  /\ pc = "createIndustries"
  /\ \E call \in {createIndustries(frame.rng, INDUSTRY_POOL)} :
       /\ frame' = [frame EXCEPT !.rng = call.rng, !.industries = call.arr, !.index = 0]
       /\ INDUSTRY_POOL' = call.list
  /\ pc' = "createCompanies"
  /\ UNCHANGED <<pipelineVars, TEAM_NAMES, returned, appVars>>

\* createCompanies: industries.forEach((industry, index) => ...) calls back
\* for the industry at frame.index, which draws perIndustry.
ForEachIndustry ==
  /\ pc = "createCompanies"
  /\ frame.index < Len(frame.industries)
  /\ \E perIndustry \in {randomBelow(frame.rng, 5)} :
       frame' = [frame EXCEPT !.rng = perIndustry.rng,
                              !.perIndustry = 6 + perIndustry.value, !.i = 0]
  /\ pc' = "companies"
  /\ UNCHANGED <<pipelineVars, TEAM_NAMES, INDUSTRY_POOL, returned, appVars>>

\* createCompanies: one iteration of for (let i = 0; i < perIndustry; i += 1);
\* after the last one the callback returns.
PushCompany ==
  /\ pc = "companies"
  /\ frame.i < frame.perIndustry
  /\ \E prefix \in {sample(frame.rng, COMPANY_PREFIXES)} :
     \E suffix \in {sample(prefix.rng, COMPANY_SUFFIXES)} :
     LET industry == frame.industries[frame.index + 1]
         last == ~(frame.i + 1 < frame.perIndustry)
     IN  /\ frame' = [frame EXCEPT
                        !.companies =
                          Append(@, [id |-> <<"co_", Digits(frame.index + 1), "_",
                                              Digits(frame.i + 1)>>,
                                     name |-> <<prefix.value, " ", suffix.value, " ",
                                                industry.name>>,
                                     industry |-> industry.name]),
                        !.rng = suffix.rng,
                        !.i = IF last THEN 0 ELSE @ + 1,
                        !.index = IF last THEN @ + 1 ELSE @]
         /\ pc' = IF last THEN "createCompanies" ELSE "companies"
  /\ UNCHANGED <<pipelineVars, TEAM_NAMES, INDUSTRY_POOL, returned, appVars>>

\* createCompanies has returned; createSdrs(rng, teams) draws sdrCount.
CallCreateSdrs ==
  /\ pc = "createCompanies"
  /\ ~(frame.index < Len(frame.industries))
  /\ \E sdrCount \in {randomBelow(frame.rng, 6)} :
       frame' = [frame EXCEPT !.rng = sdrCount.rng, !.sdrCount = 10 + sdrCount.value,
                              !.i = 0]
  /\ pc' = "sdrs"
  /\ UNCHANGED <<pipelineVars, TEAM_NAMES, INDUSTRY_POOL, returned, appVars>>

\* createSdrs: one iteration of for (let i = 0; i < sdrCount; i += 1); after
\* the last one createSdrs returns.
PushSdr ==
  /\ pc = "sdrs"
  /\ frame.i < frame.sdrCount
  /\ \E first \in {sample(frame.rng, FIRST_NAMES)} :
     \E last \in {sample(first.rng, LAST_NAMES)} :
     \E team \in {randomBelow(last.rng, Len(frame.teams))} :
     LET done == ~(frame.i + 1 < frame.sdrCount)
     IN  /\ frame' = [frame EXCEPT
                        !.sdrs = Append(@, [id |-> <<"sdr_", Digits(frame.i + 1)>>,
                                            name |-> <<first.value, " ", last.value>>,
                                            team |-> frame.teams[team.value + 1]]),
                        !.rng = team.rng,
                        !.i = IF done THEN 0 ELSE @ + 1]
         /\ pc' = IF done THEN "buildDateRange" ELSE "sdrs"
  /\ UNCHANGED <<pipelineVars, TEAM_NAMES, INDUSTRY_POOL, returned, appVars>>

\* const dates = buildDateRange(rng); const dayWeights = buildDayWeights(dates)
CallBuildDateRange ==
  /\ pc = "buildDateRange"
  /\ \E call \in {buildDateRange(frame.rng)} :
       frame' = [frame EXCEPT !.dates = call.value,
                              !.dayWeights = buildDayWeights(call.value),
                              !.rng = call.rng]
  /\ pc' = "totalEvents"
  /\ UNCHANGED <<pipelineVars, TEAM_NAMES, INDUSTRY_POOL, returned, appVars>>

\* companiesByIndustry is filled; const totalEvents = randomInt(rng, 2000, 3000)
DrawTotalEvents ==
  /\ pc = "totalEvents"
  /\ \E call \in {randomInt(frame.rng, 2000, 3000)} :
       frame' = [frame EXCEPT !.rng = call.rng, !.totalEvents = call.value,
                              !.companiesByIndustry = GroupCompanies(frame.companies),
                              !.i = 0]
  /\ pc' = "events"
  /\ UNCHANGED <<pipelineVars, TEAM_NAMES, INDUSTRY_POOL, returned, appVars>>

\* An iteration of for (let i = 0; i < totalEvents; i += 1) begins, of which
\* the model follows the first MaxGenEvents: dayTarget and selectedDay.
SelectDay ==
  /\ pc = "events"
  /\ frame.i < frame.totalEvents
  /\ frame.i < MaxGenEvents
  /\ \E dayTarget \in {mulberry32(frame.rng)} :
     \E reached \in {FirstReached(dayTarget.value, frame.dayWeights)} :
       frame' = [frame EXCEPT
                   !.rng = dayTarget.rng,
                   !.selectedDay = frame.dates[IF reached = 0 THEN 1 ELSE reached]]
  /\ pc' = "sdr"
  /\ UNCHANGED <<pipelineVars, TEAM_NAMES, INDUSTRY_POOL, returned, appVars>>

\* const sdr, industry, companyChoices, company
SelectSdrAndCompany ==
  /\ pc = "sdr"
  /\ \E sdr \in {randomBelow(frame.rng, Len(frame.sdrs))} :
     \E industry \in {randomBelow(sdr.rng, Len(frame.industries))} :
     \E companyChoices \in
          {IF frame.industries[industry.value + 1].name \in DOMAIN frame.companiesByIndustry
           THEN frame.companiesByIndustry[frame.industries[industry.value + 1].name]
           ELSE frame.companies} :
     \E company \in {randomBelow(industry.rng, Len(companyChoices))} :
       frame' = [frame EXCEPT
                   !.sdr = frame.sdrs[sdr.value + 1],
                   !.industry = frame.industries[industry.value + 1],
                   !.company = companyChoices[company.value + 1],
                   !.rng = company.rng]
  /\ pc' = "channel"
  /\ UNCHANGED <<pipelineVars, TEAM_NAMES, INDUSTRY_POOL, returned, appVars>>

\* const channel, industryAdjusted, normalized, outcome
PickChannelAndOutcome ==
  /\ pc = "channel"
  /\ \E channel \in {pickWeighted(frame.rng, CHANNEL_WEIGHTS)} :
     \E industryAdjusted \in
          {adjustOutcomeForIndustry(frame.industry, getOutcomeWeights(channel.value))} :
     \E normalized \in {normalizeWeights(industryAdjusted)} :
     \E outcome \in
          {pickWeighted(channel.rng,
                        [k \in 1..Len(normalized) |->
                           [item |-> normalized[k].outcome,
                            weight |-> normalized[k].weight]])} :
       frame' = [frame EXCEPT !.channel = channel.value, !.outcome = outcome.value,
                              !.rng = outcome.rng]
  /\ pc' = "timestamp"
  /\ UNCHANGED <<pipelineVars, TEAM_NAMES, INDUSTRY_POOL, returned, appVars>>

\* const timestamp = createEventTimestamp(rng, dates, outcome, selectedDay)
CallCreateEventTimestamp ==
  /\ pc = "timestamp"
  /\ \E call \in {createEventTimestamp(frame.rng, frame.dates, frame.outcome,
                                        frame.selectedDay)} :
       frame' = [frame EXCEPT !.timestamp = call.value, !.rng = call.rng]
  /\ pc' = "objection"
  /\ UNCHANGED <<pipelineVars, TEAM_NAMES, INDUSTRY_POOL, returned, appVars>>

\* const addObjection = shouldAddObjection(rng, outcome); const objection
PickObjection ==
  /\ pc = "objection"
  /\ \E addObjection \in {shouldAddObjection(frame.rng, frame.outcome)} :
       IF addObjection.value
       THEN \E objection \in
                 {pickWeighted(addObjection.rng,
                               [k \in 1..Len(OBJECTION_WEIGHTS) |->
                                  [item |-> OBJECTION_WEIGHTS[k].value,
                                   weight |-> OBJECTION_WEIGHTS[k].weight]])} :
              frame' = [frame EXCEPT !.objection = Some(objection.value),
                                     !.rng = objection.rng]
       ELSE frame' = [frame EXCEPT !.objection = Null, !.rng = addObjection.rng]
  /\ pc' = "push"
  /\ UNCHANGED <<pipelineVars, TEAM_NAMES, INDUSTRY_POOL, returned, appVars>>

\* const eventId, leadId; events.push({...}); i += 1.  The lead id is
\* Math.floor(rng() * 900000 + 100000), and 900000 / 2^32 is 28125 / 2^27.
PushEvent ==
  /\ pc = "push"
  /\ \E lead \in {mulberry32(frame.rng)} :
         frame' =
           [frame EXCEPT
              !.rng = lead.rng,
              !.i = @ + 1,
              !.events =
                Append(@,
                       [event_id |-> <<"evt_", padStart(Digits(frame.i + 1), 5, "0")>>,
                        lead_id |-> <<"lead_",
                                      Digits(MulShift(lead.value, 28125, 11) + 100000)>>,
                        timestamp |-> frame.timestamp,
                        week_start |-> startOfWeek(frame.timestamp),
                        sdr_id |-> frame.sdr.id, sdr_name |-> frame.sdr.name,
                        team |-> frame.sdr.team, company |-> frame.company.name,
                        industry |-> frame.industry.name, channel |-> frame.channel,
                        outcome |-> frame.outcome, objection |-> frame.objection])]
  /\ pc' = "events"
  /\ UNCHANGED <<pipelineVars, TEAM_NAMES, INDUSTRY_POOL, returned, appVars>>

\* return { seed: seed.toString(), events, sdrs, teams, industries, companies }
Return ==
  /\ pc = "events"
  /\ ~(frame.i < frame.totalEvents /\ frame.i < MaxGenEvents)
  /\ returned' =
       Append(returned,
              [seed |-> frame.seed, totalEvents |-> frame.totalEvents,
               dataset |-> [seed |-> seedToString(frame.seed), events |-> frame.events,
                            sdrs |-> frame.sdrs, teams |-> frame.teams,
                            industries |-> frame.industries,
                            companies |-> frame.companies]])
  /\ frame' = Null
  /\ pc' = "idle"
  /\ UNCHANGED <<pipelineVars, TEAM_NAMES, INDUSTRY_POOL, appVars>>

\* The generator called again and again, with any of the seeds.
InitGen ==
  /\ events = <<>>
  /\ derivedEvents = <<>>
  /\ summaries = Null
  /\ csv = <<>>
  /\ parsed = Null
  /\ Loaded
  /\ Unmounted
  /\ pc = "idle"

NextGen ==
  \/ \E seed \in Seeds : GenerateDataset(seed)
  \/ CallCreateTeams
  \/ CallCreateIndustries
  \/ ForEachIndustry
  \/ PushCompany
  \/ CallCreateSdrs
  \/ PushSdr
  \/ CallBuildDateRange
  \/ DrawTotalEvents
  \/ SelectDay
  \/ SelectSdrAndCompany
  \/ PickChannelAndOutcome
  \/ CallCreateEventTimestamp
  \/ PickObjection
  \/ PushEvent
  \/ Return

SpecGen == InitGen /\ [][NextGen]_vars

\* ------------------------------------------------------------ store actions
\* A store action runs to its end before the next one starts; generateDataset
\* runs inside the constructor and inside reseed, statement by statement.

\* constructor(): const dataset = generateDataset(DEFAULT_SEED)
Construct ==
  /\ store = Null
  /\ caller = "none"
  /\ CallGenerateDataset(DEFAULT_SEED)
  /\ caller' = "constructor"
  /\ UNCHANGED <<view, file, store, toast, uiVars>>

\* constructor(): the statements after generateDataset has returned
Constructed ==
  /\ pc = "idle"
  /\ caller = "constructor"
  /\ store' = WithDataset(returned[Len(returned)].dataset,
                          deriveEvents(returned[Len(returned)].dataset.events))
  /\ caller' = "none"
  /\ UNCHANGED <<pipelineVars, generatorVars, view, file, toast, pc, uiVars>>

\* reseed(seed): const dataset = generateDataset(seed)
Reseed(seed) ==
  /\ store # Null
  /\ caller = "none"
  /\ CallGenerateDataset(seed)
  /\ caller' = "reseed"
  /\ UNCHANGED <<view, file, store, toast, uiVars>>

\* reseed(seed): the statements after generateDataset has returned
Reseeded ==
  /\ pc = "idle"
  /\ caller = "reseed"
  /\ store' = replaceDataset(store, returned[Len(returned)].dataset)
  /\ caller' = "none"
  /\ UNCHANGED <<pipelineVars, generatorVars, view, file, toast, pc, uiVars>>

SetFilters(updates) ==
  /\ pc = "idle"
  /\ caller = "none"
  /\ store # Null
  /\ store' = setFilters(store, updates)
  /\ UNCHANGED <<pipelineVars, generatorVars, view, file, toast, caller, pc, uiVars>>

ResetFilters ==
  /\ pc = "idle"
  /\ caller = "none"
  /\ store # Null
  /\ store' = resetFilters(store)
  /\ UNCHANGED <<pipelineVars, generatorVars, view, file, toast, caller, pc, uiVars>>

SetDateRange(range) ==
  /\ pc = "idle"
  /\ caller = "none"
  /\ store # Null
  /\ store' = setDateRange(store, range)
  /\ UNCHANGED <<pipelineVars, generatorVars, view, file, toast, caller, pc, uiVars>>

\* handleFileChange for the file of the table: reader.readAsText(file); the
\* input holds one file at a time.
HandleFileChange(table) ==
  /\ pc = "idle"
  /\ caller = "none"
  /\ store # Null
  /\ file = Null
  /\ file' = Some(table)
  /\ UNCHANGED <<pipelineVars, generatorVars, view, store, toast, caller, pc, uiVars>>

\* reader.onload, the text of the file read: the try block, its catch, and
\* event.target.value = '' at the end.
ReaderOnLoad ==
  /\ pc = "idle"
  /\ caller = "none"
  /\ file # Null
  /\ \E done \in {Imported(store, prepareDatasetFromCsv(FileText(file[1])))} :
       /\ store' = done.state
       /\ toast' = Some(done.toast)
  /\ file' = Null
  /\ UNCHANGED <<pipelineVars, generatorVars, view, caller, pc, uiVars>>

\* reader.onerror
ReaderOnError ==
  /\ pc = "idle"
  /\ caller = "none"
  /\ file # Null
  /\ toast' = Some([message |-> <<"Unable to read the selected file.">>, tone |-> "error"])
  /\ file' = Null
  /\ UNCHANGED <<pipelineVars, generatorVars, view, store, caller, pc, uiVars>>

InitStore == InitGen

NextStore ==
  \/ Construct
  \/ Constructed
  \/ \E seed \in StoreSeeds : Reseed(seed)
  \/ Reseeded
  \/ store # Null /\ \E updates \in FilterUpdates(store) : SetFilters(updates)
  \/ ResetFilters
  \/ \E range \in DateRanges : SetDateRange(range)
  \/ \E table \in StoreFiles : HandleFileChange(table)
  \/ ReaderOnLoad
  \/ ReaderOnError
  \/ CallCreateTeams
  \/ CallCreateIndustries
  \/ ForEachIndustry
  \/ PushCompany
  \/ CallCreateSdrs
  \/ PushSdr
  \/ CallBuildDateRange
  \/ DrawTotalEvents
  \/ SelectDay
  \/ SelectSdrAndCompany
  \/ PickChannelAndOutcome
  \/ CallCreateEventTimestamp
  \/ PickObjection
  \/ PushEvent
  \/ Return

\* The store from its construction on, reseeded, filtered and replaced by
\* imports.
SpecStore == InitStore /\ [][NextStore]_vars

\* ------------------------------------------------------------------ claims

\* C1: two calls of generateDataset with the same seed return identical
\* datasets (the same number of events, the same events in the same order
\* with every field equal, the same teams, industries, companies and SDRs),
\* and no call leaves the module's tables other than it found them.
SameSeedSameDataset ==
  /\ \A i, j \in 1..Len(returned) :
       returned[i].seed = returned[j].seed =>
         /\ returned[i].dataset = returned[j].dataset
         /\ returned[i].totalEvents = returned[j].totalEvents
  /\ TEAM_NAMES = TeamNamesAtLoad
  /\ INDUSTRY_POOL = IndustryPoolAtLoad

\* Two calls with one seed have returned, with events, and a call with
\* another seed would have returned another dataset.
SameSeedWitness ==
  /\ Len(returned) = 2
  /\ returned[1].seed = returned[2].seed
  /\ returned[1].dataset = returned[2].dataset
  /\ Len(returned[1].dataset.events) = MaxGenEvents
  /\ returned[1].dataset.teams # SubSeq(TeamNamesAtLoad, 1, Len(returned[1].dataset.teams))

TheParsed == parsed[1]

TextColumnsOf(event) == {event[column] : column \in OutreachEventFields \ {"objection"}}

\* A text that is not empty, has no white space at either end and holds no
\* line feed.
IsCleanText(text) ==
  /\ text # <<>>
  /\ trim(text) = text
  /\ \A i \in 1..Len(text) : text[i] # "\n"

CleanEvents ==
  \A i \in 1..Len(events) : \A text \in TextColumnsOf(events[i]) : IsCleanText(text)

\* C2: for every list of events whose 12 columns hold valid values (non-empty
\* strings for the 11 required columns, valid channel and outcome, objection
\* null or valid), parsing the serialised CSV returns events whose 12 column
\* values equal the originals, in order and in number.
CsvRoundTripAnyText ==
  pc = "imported" => (TheParsed.ok /\ TheParsed.events = events)

\* C2 on clean text: the round trip does return the original column values,
\* in order and in number, when the required columns hold non-empty strings
\* without white space at either end and without a line feed.
CsvRoundTripCleanText ==
  (pc = "imported" /\ CleanEvents) => (TheParsed.ok /\ TheParsed.events = events)

\* Two events, one of them null in objection, a quote and a comma among the
\* values, come back from the import as they were.
CsvRoundTripWitness ==
  /\ pc = "imported"
  /\ CleanEvents
  /\ Len(events) = 2
  /\ \E i \in 1..2 : events[i].objection = Null
  /\ \E i \in 1..2 : events[i].objection # Null
  /\ \E i \in 1..2 : \E j \in 1..Len(events[i].company) : events[i].company[j] = "\""
  /\ \E i \in 1..2 : \E j \in 1..Len(events[i].event_id) : events[i].event_id[j] = ","
  /\ TheParsed.ok
  /\ TheParsed.events = events

TheSummaries == summaries[1]

KpiNames == {"dialToConnect", "connectToConversation", "meetingToQualified", "noShow"}

\* C3: each of the four rate computations returns rate = null exactly when
\* its denominator is 0 and the quotient numerator/denominator otherwise; on
\* the empty list each returns numerator 0, denominator 0, rate null.
RateNullIffZeroDenominator ==
  pc = "summarised" =>
    \A k \in KpiNames :
      LET r == TheSummaries.kpis[k]
      IN  /\ (r.rate = Null) <=> (r.denominator = 0)
          /\ r.rate # Null =>
               /\ r.rate[1].den > 0
               /\ r.rate[1].num * r.denominator = r.numerator * r.rate[1].den
          /\ derivedEvents = <<>> =>
               r.numerator = 0 /\ r.denominator = 0 /\ r.rate = Null

\* A summarised list with dials, so a non-null Dial->Connect rate, and no
\* booked meeting, so a null No-Show rate.
RateWitness ==
  /\ pc = "summarised"
  /\ TheSummaries.kpis.dialToConnect.denominator = 2
  /\ TheSummaries.kpis.dialToConnect.numerator = 1
  /\ TheSummaries.kpis.noShow.denominator = 0

MeetingStageOutcomes == {"meeting_booked", "meeting_held", "qualified"}

SameLead(i) == {j \in DOMAIN events : events[j].lead_id = events[i].lead_id}

TimeOf(i) == getTime(events[i].timestamp)

\* Event i comes first among the events of `among`: none is earlier, and
\* none of equal time stands before it in the input.
FirstAmong(i, among) ==
  /\ i \in among
  /\ \A j \in among : TimeOf(j) > TimeOf(i) \/ (TimeOf(j) = TimeOf(i) /\ j >= i)

\* C4: an event has a non-null time_to_meeting_days exactly when it is its
\* lead's earliest event whose outcome is meeting_booked, meeting_held or
\* qualified (of several at that time, the first of the input); a lead with
\* no such event has null on all of its events.
TimeToMeetingOnlyOnFirstMeetingStage ==
  pc = "derived" =>
    \A i \in DOMAIN derivedEvents :
      (derivedEvents[i].time_to_meeting_days # Null) <=>
        FirstAmong(i, {j \in SameLead(i) : events[j].outcome \in MeetingStageOutcomes})

\* C5: is_qualified => is_meeting_held => is_meeting_booked => is_conversation
\* => is_connected on every derived event; no_show gives is_no_show and
\* is_meeting_booked without is_meeting_held and is_qualified; is_no_show is
\* false for every other outcome.
FlagsProgression ==
  \A i \in DOMAIN derivedEvents :
    LET e == derivedEvents[i]
    IN  /\ e.is_qualified => e.is_meeting_held
        /\ e.is_meeting_held => e.is_meeting_booked
        /\ e.is_meeting_booked => e.is_conversation
        /\ e.is_conversation => e.is_connected
        /\ e.outcome = "no_show" =>
             e.is_no_show /\ e.is_meeting_booked /\ ~e.is_meeting_held /\ ~e.is_qualified
        /\ e.outcome # "no_show" => ~e.is_no_show

\* A derived list holding a no_show event and a qualified event.
FlagsWitness ==
  /\ pc = "derived"
  /\ \E i, j \in DOMAIN derivedEvents :
       /\ derivedEvents[i].outcome = "no_show" /\ derivedEvents[i].is_no_show
       /\ derivedEvents[j].outcome = "qualified" /\ derivedEvents[j].is_qualified

GroupingKeys == {"company", "team", "sdr"}

KeyField(grouping) ==
  CASE grouping = "company" -> "company"
    [] grouping = "team" -> "team"
    [] grouping = "sdr" -> "sdr_id"

StageFlags ==
  [connects |-> "is_connected", conversations |-> "is_conversation",
   meetingsBooked |-> "is_meeting_booked", meetingsHeld |-> "is_meeting_held",
   qualified |-> "is_qualified"]

\* The distinct leads of the group `id` that have an event carrying `flag`.
LeadsWith(grouping, id, flag) ==
  {derivedEvents[j].lead_id :
     j \in {k \in DOMAIN derivedEvents :
              derivedEvents[k][KeyField(grouping)] = id /\ derivedEvents[k][flag]}}

\* The distinct leads of the group `id`.
LeadsOf(grouping, id) ==
  {derivedEvents[j].lead_id :
     j \in {k \in DOMAIN derivedEvents : derivedEvents[k][KeyField(grouping)] = id}}

AllFunnels(grouping) ==
  {TheSummaries.funnels[grouping][i] : i \in DOMAIN TheSummaries.funnels[grouping]}
    \cup
  {TheSummaries.entityFunnels[grouping][i] :
     i \in DOMAIN TheSummaries.entityFunnels[grouping]}

LaterStagesCountLeads(grouping, f) ==
  \A s \in 2..6 :
    f.stages[s].count = Cardinality(LeadsWith(grouping, f.id, StageFlags[f.stages[s].key]))

\* C6 as stated: every stage count is the number of distinct leads of the
\* group with an event carrying the stage's flag, the dials stage counting
\* the leads with an is_dial event.
StageCountsWithDialFlag ==
  pc = "summarised" =>
    \A grouping \in GroupingKeys : \A f \in AllFunnels(grouping) :
      /\ f.stages[1].count = Cardinality(LeadsWith(grouping, f.id, "is_dial"))
      /\ LaterStagesCountLeads(grouping, f)

\* C6 (amended): the stages connects .. qualified count the distinct leads of
\* the group with an event carrying is_connected .. is_qualified, and the
\* dials stage counts all distinct leads of the group, whatever the channel.
StageCountsDistinctLeads ==
  pc = "summarised" =>
    \A grouping \in GroupingKeys : \A f \in AllFunnels(grouping) :
      /\ f.stages[1].key = "dials"
      /\ f.stages[1].count = Cardinality(LeadsOf(grouping, f.id))
      /\ LaterStagesCountLeads(grouping, f)

\* A company funnel over two events of one lead, one of them by email: the
\* lead is counted once, and the email event counts toward dials.
StageCountsWitness ==
  /\ pc = "summarised"
  /\ Len(derivedEvents) = 2
  /\ derivedEvents[1].lead_id = derivedEvents[2].lead_id
  /\ derivedEvents[1].channel = "email" /\ derivedEvents[2].channel = "email"
  /\ derivedEvents[1].is_connected /\ derivedEvents[2].is_connected
  /\ Len(TheSummaries.funnels.company) = 1
  /\ TheSummaries.funnels.company[1].stages[1].count = 1
  /\ TheSummaries.funnels.company[1].stages[2].count = 1

\* C7: in every funnel of every grouping the stage counts do not increase:
\* dials >= connects >= conversations >= meetingsBooked >= meetingsHeld >=
\* qualified.
FunnelMonotone ==
  pc = "summarised" =>
    \A grouping \in GroupingKeys : \A f \in AllFunnels(grouping) :
      /\ Len(f.stages) = 6
      /\ \A s \in 1..5 : f.stages[s].count >= f.stages[s + 1].count

\* A funnel whose counts fall along the stages, built from an email event
\* that connected and a no_show: 2 dials .. 1 booked, 0 held.
FunnelMonotoneWitness ==
  /\ pc = "summarised"
  /\ \E i \in DOMAIN derivedEvents :
       ~derivedEvents[i].is_dial /\ derivedEvents[i].is_connected
  /\ \E f \in AllFunnels("company") :
       /\ f.stages[1].count = 2
       /\ f.stages[4].count = 1
       /\ f.stages[5].count = 0

\* C8: deriveEvents returns a list as long as its input whose i-th element
\* carries the 12 OutreachEvent fields of the i-th input event, and leaves
\* the input list as it was.
DerivePreservesInput ==
  [][(pc = "input" /\ pc' = "derived") =>
       /\ events' = events
       /\ Len(derivedEvents') = Len(events)
       /\ \A i \in DOMAIN events : \A f \in OutreachEventFields :
            /\ f \in DOMAIN derivedEvents'[i]
            /\ derivedEvents'[i][f] = events[i][f]]_vars

\* A derived list whose input is not in timestamp order.
DeriveOrderWitness ==
  /\ pc = "derived"
  /\ Len(events) = 2 /\ Len(derivedEvents) = 2
  /\ TimeOf(1) > TimeOf(2)
  /\ derivedEvents[1].event_id = "evt_00001"

\* C9 as stated: is_first_contact holds exactly on the events that are the
\* earliest by timestamp among the events of their lead.
FirstContactIsEarliest ==
  pc = "derived" =>
    \A i \in DOMAIN derivedEvents :
      derivedEvents[i].is_first_contact <=> (\A j \in SameLead(i) : TimeOf(i) <= TimeOf(j))

\* C9 (amended): is_first_contact holds exactly on the event that is the
\* earliest by timestamp among the events of its lead, and, when several
\* events of the lead share that earliest timestamp, on the first of them in
\* input order.
FirstContactIsFirstEarliest ==
  pc = "derived" =>
    \A i \in DOMAIN derivedEvents :
      derivedEvents[i].is_first_contact <=> FirstAmong(i, SameLead(i))

\* Two events of one lead at the same time: the first is the first contact.
FirstContactWitness ==
  /\ pc = "derived"
  /\ Len(derivedEvents) = 2
  /\ events[1].lead_id = events[2].lead_id
  /\ TimeOf(1) = TimeOf(2)
  /\ derivedEvents[1].is_first_contact
  /\ ~derivedEvents[2].is_first_contact

\* The earliest timestamp among the events of the lead of event i.
FirstContactTime(i) ==
  CHOOSE t \in {TimeOf(j) : j \in SameLead(i)} : \A j \in SameLead(i) : t <= TimeOf(j)

\* C10: every non-null time_to_meeting_days is >= 0 and is the number of
\* days from the lead's first-contact timestamp to the timestamp of the
\* event carrying it; it is 0 when that event is the first contact itself.
TimeToMeetingNonNegative ==
  pc = "derived" =>
    \A i \in DOMAIN derivedEvents :
      LET days == derivedEvents[i].time_to_meeting_days
      IN  days # Null =>
            /\ days[1].num >= 0 /\ days[1].den > 0
            /\ days[1] = Divide(TimeOf(i) - FirstContactTime(i), MS_PER_DAY)
            /\ derivedEvents[i].is_first_contact => days[1].num = 0

\* A lead first contacted at 12:00 of day 0 that books a meeting on day 2
\* (1.5 days), the later event standing first in the input.
TimeToMeetingWitness ==
  /\ pc = "derived"
  /\ Len(derivedEvents) = 2
  /\ derivedEvents[1].time_to_meeting_days = Some([num |-> 3, den |-> 2])
  /\ derivedEvents[2].is_first_contact

\* The number of derived events on which every flag of `flags` holds.
EventsWith(flags) ==
  Cardinality({i \in DOMAIN derivedEvents : \A f \in flags : derivedEvents[i][f]})

\* The rate of `name` in the summaries counts the events with the flags
\* `over` as its denominator, those with the flags `hits` as its numerator,
\* and is their quotient when there is a denominator.
RateCounts(name, hits, over) ==
  /\ TheSummaries.kpis[name].denominator = EventsWith(over)
  /\ TheSummaries.kpis[name].numerator = EventsWith(hits)
  /\ EventsWith(over) > 0 =>
       TheSummaries.kpis[name].rate = Some(Divide(EventsWith(hits), EventsWith(over)))

\* C11: the four rates count events, not leads.  Dial->Connect is the events
\* with is_dial and is_connected over the events with is_dial;
\* Connect->Conversation the events with is_conversation over those with
\* is_connected; Meeting->Qualified the events with is_qualified over those
\* with is_meeting_held; No-Show the events with is_no_show over those with
\* is_meeting_booked.
RatesCountEvents ==
  pc = "summarised" =>
    /\ RateCounts("dialToConnect", {"is_dial", "is_connected"}, {"is_dial"})
    /\ RateCounts("connectToConversation", {"is_conversation"}, {"is_connected"})
    /\ RateCounts("meetingToQualified", {"is_qualified"}, {"is_meeting_held"})
    /\ RateCounts("noShow", {"is_no_show"}, {"is_meeting_booked"})

\* Two events of one lead, a call that connects and an email that reaches a
\* conversation: one dial with one connect, two connects with one
\* conversation, counted per event.
RatesCountEventsWitness ==
  /\ pc = "summarised"
  /\ Len(derivedEvents) = 2
  /\ derivedEvents[1].lead_id = derivedEvents[2].lead_id
  /\ derivedEvents[1].is_dial /\ derivedEvents[1].is_connected
  /\ ~derivedEvents[2].is_dial /\ derivedEvents[2].is_conversation
  /\ TheSummaries.kpis.dialToConnect.denominator = 1
  /\ TheSummaries.kpis.connectToConversation.denominator = 2
  /\ TheSummaries.kpis.connectToConversation.numerator = 1

TheView == view[1]

\* The derived events of the entity `id` of a grouping.
EventsOfEntity(grouping, id) ==
  SelectSeq(derivedEvents, LAMBDA event : getId(grouping, event) = id)

\* The non-null rates among the three of the health score, over `list`.
HealthRates(list) ==
  SelectSeq(<<computeDialToConnectRate(list).rate,
              computeConnectToConversationRate(list).rate,
              computeMeetingToQualifiedRate(list).rate>>,
            LAMBDA rate : rate # Null)

\* The sum of the rates of `rates`, as a fraction.
RECURSIVE RateSum(_)
RateSum(rates) ==
  IF rates = <<>> THEN [num |-> 0, den |-> 1]
  ELSE Plus(rates[1][1], RateSum(Tail(rates)))

\* score is an integer nearest to the average of the percentages of `rates`:
\* |score - 100 * sum / n| <= 1/2, written without a division.
NearestToAverage(score, rates) ==
  /\ score \in 0..100
  /\ 2 * (score * Len(rates) * RateSum(rates).den - 100 * RateSum(rates).num)
       <= Len(rates) * RateSum(rates).den
  /\ 2 * (100 * RateSum(rates).num - score * Len(rates) * RateSum(rates).den)
       <= Len(rates) * RateSum(rates).den

\* `ranked` lists the entities of the grouping that have a rate, once each
\* and with the score of their events, and no entity without one.
RanksScoredEntities(ranked, grouping) ==
  /\ \A e \in DOMAIN ranked :
       /\ HealthRates(EventsOfEntity(grouping, ranked[e].id)) # <<>>
       /\ NearestToAverage(ranked[e].score,
                           HealthRates(EventsOfEntity(grouping, ranked[e].id)))
       /\ \A f \in DOMAIN ranked : ranked[f].id = ranked[e].id => f = e
  /\ \A i \in DOMAIN derivedEvents :
       HealthRates(EventsOfEntity(grouping, getId(grouping, derivedEvents[i]))) # <<>>
         => \E e \in DOMAIN ranked : ranked[e].id = getId(grouping, derivedEvents[i])

\* C12: the pipeline health score of an entity is the average of its non-null
\* rates among Dial->Connect, Connect->Conversation and Meeting->Qualified,
\* taken as percentages and rounded to the nearest integer after the
\* averaging; an entity whose three rates are null has no score and is in
\* neither the output of createEntityPipelineHealth nor the topTeams of the
\* summaries.
HealthScoreIsRoundedAverage ==
  pc = "rendered" =>
    /\ RanksScoredEntities(TheView.teamEntities, "team")
    /\ RanksScoredEntities(TheView.sdrEntities, "sdr")
    /\ RanksScoredEntities(TheSummaries.pipelineHealth.topTeams, "team")
    /\ IF HealthRates(derivedEvents) = <<>> THEN TheView.overallScore = Null
       ELSE /\ TheView.overallScore # Null
            /\ NearestToAverage(TheView.overallScore[1], HealthRates(derivedEvents))

\* Two of the three calls of one team reach a conversation and no meeting is
\* held: the rates 2/3 and 1 average to 83.33 and the team scores 83 (it
\* would score 84 with the two percentages rounded first); the email of the
\* other team is not answered, so that team has no rate and is not ranked.
HealthScoreWitness ==
  /\ pc = "rendered"
  /\ Len(derivedEvents) = 4
  /\ Len(HealthRates(EventsOfEntity("team", "Outbound Alpha"))) = 2
  /\ Len(EventsOfEntity("team", "Pipeline Pros")) = 1
  /\ HealthRates(EventsOfEntity("team", "Pipeline Pros")) = <<>>
  /\ Len(TheView.teamEntities) = 1
  /\ TheView.teamEntities[1].score = 83
  /\ Len(TheView.sdrEntities) = 1
  /\ Len(TheSummaries.pipelineHealth.topTeams) = 1
  /\ TheSummaries.pipelineHealth.topTeams[1].score = 83

TheFile == file[1]

Columns == {CSV_COLUMNS[c] : c \in DOMAIN CSV_COLUMNS}

\* The columns of the schema the header of the file does not name.
MissingColumns == Columns \ {TheFile.columns[c] : c \in DOMAIN TheFile.columns}

\* The text the file gives to a column in a row, without the white space
\* around it.
Given(row, column) == trim(row[column])

\* The values the schema admits in channel and outcome, and the objections.
EnumDomain ==
  [channel |-> {<<"c", "a", "l", "l">>, <<"e", "m", "a", "i", "l">>, <<"l", "i", "n", "k", "e", "d", "i", "n">>},
   outcome |-> {<<"n", "o", "_", "a", "n", "s", "w", "e", "r">>, <<"v", "o", "i", "c", "e", "m", "a", "i", "l">>, <<"c", "o", "n", "n", "e", "c", "t", "e", "d">>, <<"c", "o", "n", "v", "e", "r", "s", "a", "t", "i", "o", "n">>,
                <<"m", "e", "e", "t", "i", "n", "g", "_", "b", "o", "o", "k", "e", "d">>, <<"m", "e", "e", "t", "i", "n", "g", "_", "h", "e", "l", "d">>, <<"n", "o", "_", "s", "h", "o", "w">>, <<"q", "u", "a", "l", "i", "f", "i", "e", "d">>},
   objection |-> {<<"b", "u", "d", "g", "e", "t">>, <<"t", "i", "m", "i", "n", "g">>, <<"a", "u", "t", "h", "o", "r", "i", "t", "y">>, <<"n", "e", "e", "d">>, <<"o", "t", "h", "e", "r">>}]

\* The columns of channel, outcome and objection in which the row holds a
\* value outside the domain.
Offending(row) ==
  {column \in DOMAIN EnumDomain :
     /\ Given(row, column) \notin EnumDomain[column]
     /\ ~(column = "objection" /\ Given(row, column) = <<>>)}

\* The row lacks a value for one of the 11 columns that are not nullable.
LacksValue(row) == \E column \in Columns \ {"objection"} : Given(row, column) = <<>>

\* The rows of the file the parser cannot accept.
BadRows == {r \in DOMAIN TheFile.rows : LacksValue(TheFile.rows[r]) \/ Offending(TheFile.rows[r]) # {}}

\* C14: parseDashboardCsv returns no partial result.  When a row of the file
\* lacks a value for a required column, or another line cannot be parsed (a
\* header without a required column, a value outside its domain, a summary
\* line that is not JSON), be it the last line of the file, the call throws
\* and returns no events; when it returns, it returns an event for every row.
NoPartialResult ==
  pc = "imported" =>
    /\ (MissingColumns # {} \/ BadRows # {} \/ TheFile.tail # <<>>) =>
         (~TheParsed.ok /\ DOMAIN TheParsed = {"ok", "error"})
    /\ TheParsed.ok => Len(TheParsed.events) = Len(TheFile.rows)

\* A valid row followed by a row without lead_id: the call throws for the
\* second row and the first is not returned.
NoPartialResultWitness ==
  /\ pc = "imported"
  /\ MissingColumns = {}
  /\ BadRows = {2}
  /\ LacksValue(TheFile.rows[2])
  /\ Offending(TheFile.rows[2]) = {}
  /\ TheFile.tail = <<>>
  /\ ~TheParsed.ok
  /\ TheParsed.error = <<"One or more rows are missing required values.">>

\* text holds part somewhere.
Contains(text, part) ==
  \E i \in 0..(Len(text) - Len(part)) : SubSeq(text, i + 1, i + Len(part)) = part

\* The event the schema reads in a row: each column without the white space
\* around it, an empty objection being null.
EventOf(row) ==
  [column \in Columns |->
     IF column # "objection" THEN Given(row, column)
     ELSE IF Given(row, column) = <<>> THEN Null
     ELSE Some(Given(row, column))]

\* C15: the first line of the file that is neither blank nor a comment is the
\* header.  When it lacks columns of the schema, the call throws an error
\* whose message names each of them; when it names the 12 columns, in any
\* order and among others, each row is read by the position of the columns
\* in the header: a file whose lines can all be parsed returns, for every
\* order of the columns, the events of its rows.
HeaderMapsByName ==
  pc = "imported" =>
    /\ MissingColumns # {} =>
         /\ ~TheParsed.ok
         /\ Len(TheParsed.error) = 2
         /\ TheParsed.error[1] = "Missing required columns: "
         /\ \A column \in MissingColumns : Contains(TheParsed.error[2], ColumnText[column])
         /\ \A column \in Columns \ MissingColumns :
              ~Contains(TheParsed.error[2], ColumnText[column])
    /\ (MissingColumns = {} /\ BadRows = {} /\ TheFile.tail = <<>>) =>
         /\ TheParsed.ok
         /\ TheParsed.events = [r \in DOMAIN TheFile.rows |-> EventOf(TheFile.rows[r])]

\* A file whose header names the columns in the reverse order, after a seed
\* line, a blank line and a comment: its two rows come back as events.
HeaderMapsByNameWitness ==
  /\ pc = "imported"
  /\ TheFile.lead # <<>>
  /\ TheFile.columns[1] = "objection"
  /\ Len(TheFile.rows) = 2
  /\ TheParsed.ok
  /\ TheParsed.seed = Some(<<"4", "2">>)
  /\ TheParsed.events[1].channel = <<"c", "a", "l", "l">>
  /\ TheParsed.events[2].objection = Some(<<"b", "u", "d", "g", "e", "t">>)

FirstBadRow == TheFile.rows[CHOOSE r \in BadRows : \A q \in BadRows : r <= q]

\* The first row of the file the parser cannot accept holds a value outside
\* its domain, and no line before it fails.
FirstBadRowOffends ==
  /\ MissingColumns = {}
  /\ BadRows # {}
  /\ Offending(TheFile.rows[CHOOSE r \in BadRows : \A q \in BadRows : r <= q]) # {}

\* C16: a row is accepted only if its channel is call, email or linkedin, its
\* outcome one of the 8 outcomes and its objection empty, which is read as
\* null, or one of the 5 objections.  A row with another value in one of the
\* three columns, reached with no line failing before it, makes the call
\* throw an error whose message holds the value: Invalid <column> value
\* "<value>" in CSV, for a column of the row whose value is outside the
\* domain.
EnumValuesValidated ==
  pc = "imported" =>
    /\ TheParsed.ok =>
         \A r \in DOMAIN TheParsed.events :
           /\ TheParsed.events[r].channel \in EnumDomain.channel
           /\ TheParsed.events[r].outcome \in EnumDomain.outcome
           /\ TheParsed.events[r].objection
                \in {Null} \cup {Some(o) : o \in EnumDomain.objection}
           /\ Offending(TheFile.rows[r]) = {}
           /\ (TheParsed.events[r].objection = Null)
                <=> (Given(TheFile.rows[r], "objection") = <<>>)
    /\ FirstBadRowOffends =>
         /\ ~TheParsed.ok
         /\ \E column \in Offending(FirstBadRow) :
              TheParsed.error =
                <<"Invalid " \o column \o " value \"", Given(FirstBadRow, column), "\" in CSV.">>

\* A valid row, then a row whose outcome is won and whose objection is price,
\* under the header in schema order: the error holds won, the first of the
\* two in the header.
EnumValuesWitness ==
  /\ pc = "imported"
  /\ TheFile.columns = CSV_COLUMNS
  /\ BadRows = {2}
  /\ Offending(TheFile.rows[2]) = {"outcome", "objection"}
  /\ ~TheParsed.ok
  /\ TheParsed.error = <<"Invalid outcome value \"", <<"w", "o", "n">>, "\" in CSV.">>

\* text with each double quote written twice.
RECURSIVE Doubled(_)
Doubled(text) ==
  IF text = <<>> THEN <<>>
  ELSE (IF Head(text) = "\"" THEN <<"\"", "\"">> ELSE <<Head(text)>>) \o Doubled(Tail(text))

\* The texts of `parts` in a row, `separator` between them.
RECURSIVE Separated(_, _)
Separated(parts, separator) ==
  IF parts = <<>> THEN <<>>
  ELSE IF Len(parts) = 1 THEN parts[1]
  ELSE parts[1] \o separator \o Separated(Tail(parts), separator)

\* The header row and the rows of the exported events: each field in double
\* quotes, its own quotes doubled, a null objection written as absent.
QuotedTable(absent) ==
  Separated(
    <<Separated([c \in DOMAIN CSV_COLUMNS |->
                   <<"\"">> \o ColumnText[CSV_COLUMNS[c]] \o <<"\"">>], <<",">>)>>
      \o [i \in DOMAIN events |->
            Separated([c \in DOMAIN CSV_COLUMNS |->
                         IF CSV_COLUMNS[c] # "objection"
                         THEN <<"\"">> \o Doubled(events[i][CSV_COLUMNS[c]]) \o <<"\"">>
                         ELSE IF events[i].objection = Null THEN absent
                         ELSE <<"\"">> \o Doubled(events[i].objection[1]) \o <<"\"">>],
                      <<",">>)],
    <<"\n">>)

EndsWith(text, suffix) ==
  Len(text) >= Len(suffix) /\ SubSeq(text, Len(text) - Len(suffix) + 1, Len(text)) = suffix

\* C17: in the text serializeDashboardCsv writes, every field of the header
\* row and of every data row stands in double quotes with its own double
\* quotes doubled, and a null objection is written as the empty quoted
\* string "".
EveryFieldQuoted ==
  pc = "exported" => EndsWith(csv, QuotedTable(<<"\"", "\"">>))

\* C17 as the code writes it: the fields that hold a text stand in double
\* quotes with their quotes doubled; a null objection is written as nothing,
\* the row ending in its last comma.
TextFieldsQuoted ==
  pc = "exported" => EndsWith(csv, QuotedTable(<<>>))

\* Two events exported, one with an objection and one without, a double
\* quote among the values: the row without objection ends in a comma.
TextFieldsQuotedWitness ==
  /\ pc = "exported"
  /\ Len(events) = 2
  /\ events[1].objection # Null
  /\ events[2].objection = Null
  /\ \E j \in DOMAIN events[1].company : events[1].company[j] = "\""
  /\ csv[Len(csv)] = ","

\* The events generated so far by the running call and those of the datasets
\* returned.
GeneratedEvents ==
  (IF frame = Null THEN {} ELSE {frame.events[i] : i \in DOMAIN frame.events})
    \cup UNION {{returned[r].dataset.events[i] : i \in DOMAIN returned[r].dataset.events} :
                  r \in DOMAIN returned}

\* C20: the week_start of every generated event is the Monday 00:00 UTC of
\* the week, Monday to Sunday, that holds the timestamp the event ends up
\* with, also when the day of a meeting was moved to a Tuesday, Wednesday or
\* Thursday.  Day 0 is a Monday.
WeekStartIsMonday ==
  \A event \in GeneratedEvents :
    /\ event.week_start.ms = 0
    /\ event.week_start.day % 7 = 0
    /\ event.week_start.day <= event.timestamp.day
    /\ event.timestamp.day <= event.week_start.day + 6

\* The event just pushed is a meeting whose day, selected in one week, was
\* moved to a Tuesday, Wednesday or Thursday of another week.
WeekStartWitness ==
  /\ pc = "events"
  /\ frame.events # <<>>
  /\ frame.events[Len(frame.events)].outcome \in {"meeting_booked", "meeting_held", "qualified"}
  /\ frame.events[Len(frame.events)].timestamp.day # frame.selectedDay.day
  /\ frame.events[Len(frame.events)].timestamp.day % 7 \in {1, 2, 3}
  /\ frame.events[Len(frame.events)].week_start.day # frame.selectedDay.day - (frame.selectedDay.day % 7)

\* The file has a line the parser cannot accept.
FileRejected == MissingColumns # {} \/ BadRows # {} \/ TheFile.tail # <<>>

\* The step is reader.onload for the file chosen.
ImportEnds == file # Null /\ file' = Null /\ toast'[1].message[1] # "Unable to read the selected file."

\* C13: an import that fails, prepareDatasetFromCsv throwing on the text of
\* the file, leaves the dataset, the derived and the filtered events, the
\* filters, the date range and the seed of the store as they were and shows
\* the message of the error; an import changes the dataset of the store only
\* when every line of the file was parsed.
FailedImportKeepsStore ==
  [][ImportEnds =>
       /\ FileRejected =>
            /\ \A field \in {"dataset", "derivedEvents", "filteredEvents", "filters",
                             "dateRange", "seed"} : store'[field] = store[field]
            /\ toast' = Some([message |-> parseDashboardCsv(FileText(file[1])).error,
                              tone |-> "error"])
       /\ ~FileRejected =>
            /\ store'.dataset.events = [r \in DOMAIN file[1].rows |->
                                          AsOutreachEvent(EventOf(file[1].rows[r]))]
            /\ toast'[1].tone = "success"]_vars

\* Over the generated dataset filtered by channel, with the date range set
\* while the file was read, the import of a file whose first row is valid
\* and whose second row lacks its lead_id has ended: the filters stay and
\* the toast is the error of the second row.
FailedImportWitness ==
  /\ file = Null
  /\ toast = Some([message |-> <<"One or more rows are missing required values.">>,
                   tone |-> "error"])
  /\ store.filters.channels = <<"call">>
  /\ store.dateRange.start # Null
  /\ Len(store.dataset.sdrs) = 13
  /\ Len(store.dataset.events) = MaxGenEvents

\* The step is the end of a reseed, or an import that replaced the dataset.
ReplacesDataset ==
  \/ caller = "reseed" /\ caller' = "none"
  \/ ImportEnds /\ toast'[1].tone = "success"

\* The step is a setFilters, a resetFilters or a setDateRange.
ChangesFilters ==
  /\ store # Null
  /\ store' # Null
  /\ caller = "none"
  /\ caller' = "none"
  /\ file' = file

\* C19: after every action of the store its derivedEvents are the
\* deriveEvents of the events of its dataset and its seed is the seed of its
\* dataset; reseed and replaceDataset put the new dataset in the place of
\* the old one, with no filter and no date range; setFilters, resetFilters
\* and setDateRange leave the dataset, the derived events and the seed.
StoreFollowsDataset ==
  [][store' # Null =>
       /\ \A list \in {store'.dataset.events} : store'.derivedEvents = deriveEvents(list)
       /\ store'.seed = store'.dataset.seed
       /\ (caller = "reseed" /\ caller' = "none") =>
            store'.dataset = returned[Len(returned)].dataset
       /\ ReplacesDataset =>
            /\ store'.filters =
                 [teams |-> <<>>, sdrs |-> <<>>, companies |-> <<>>, industries |-> <<>>,
                  channels |-> <<>>]
            /\ store'.dateRange = [start |-> Null, end |-> Null]
            /\ store'.filteredEvents = store'.derivedEvents
       /\ ChangesFilters =>
            /\ store'.dataset = store.dataset
            /\ store'.derivedEvents = store.derivedEvents
            /\ store'.seed = store.seed]_vars

\* After an import the store was reseeded with 42, which gave it the 10 SDRs
\* of that seed, and then filtered by channel and by date, which left one
\* event of the two.
StoreFollowsDatasetWitness ==
  /\ store # Null
  /\ toast # Null
  /\ Len(returned) = 2
  /\ returned[2].seed = [number |-> 42]
  /\ Len(store.dataset.sdrs) = 10
  /\ store.seed = <<"4", "2">>
  /\ store.filters.channels = <<"call">>
  /\ store.dateRange.end # Null
  /\ Len(store.derivedEvents) = MaxGenEvents
  /\ Len(store.filteredEvents) = 1

\* Every event of the dataset names an SDR, a team, an industry and a
\* company of the directories of the dataset.
ClosedUniverse(dataset) ==
  \A i \in DOMAIN dataset.events :
    /\ \E k \in DOMAIN dataset.sdrs : dataset.sdrs[k].id = dataset.events[i].sdr_id
    /\ \E k \in DOMAIN dataset.teams : dataset.teams[k] = dataset.events[i].team
    /\ \E k \in DOMAIN dataset.industries :
         dataset.industries[k].name = dataset.events[i].industry
    /\ \E k \in DOMAIN dataset.companies :
         dataset.companies[k].name = dataset.events[i].company

\* C18: every dataset generateDataset returns, and every dataset
\* buildDatasetFromEvents builds from the events of a parsed file, is closed:
\* the sdr_id of each event is the id of an entry of sdrs, its team a member
\* of teams, its industry the name of an entry of industries and its company
\* the name of an entry of companies.
DatasetsAreClosed ==
  /\ \A r \in DOMAIN returned : ClosedUniverse(returned[r].dataset)
  /\ store # Null => ClosedUniverse(store.dataset)

\* The generator has returned twice and the store holds the dataset of a
\* file whose two rows name one SDR, one team, one industry and one
\* company, the second row with white space around them.
DatasetsAreClosedWitness ==
  /\ Len(returned) = 2
  /\ \A r \in DOMAIN returned : Len(returned[r].dataset.events) = MaxGenEvents
  /\ store # Null
  /\ store.seed = <<"i", "m", "p", "o", "r", "t", "e", "d", "-", "d", "a", "t", "a", "s", "e", "t">>
  /\ Len(store.dataset.events) = 2
  /\ Len(store.dataset.sdrs) = 1
  /\ Len(store.dataset.teams) = 1
  /\ Len(store.dataset.industries) = 1
  /\ Len(store.dataset.companies) = 1

\* C21: is_dial is true exactly when the channel is call, whatever the
\* outcome, in the flags deriveOutcomeFlags gives for an event and in every
\* event deriveEvents returns.
DialIsCallChannel ==
  /\ \A i \in DOMAIN events :
       deriveOutcomeFlags(events[i]).is_dial = (events[i].channel = "call")
  /\ \A i \in DOMAIN derivedEvents :
       derivedEvents[i].is_dial = (derivedEvents[i].channel = "call")

\* A derived list with a connected email, which is no dial, and an
\* unanswered call, which is one.
DialIsCallChannelWitness ==
  /\ pc = "derived"
  /\ Len(derivedEvents) = 2
  /\ derivedEvents[1].channel = "email"
  /\ derivedEvents[1].outcome = "connected"
  /\ ~derivedEvents[1].is_dial
  /\ derivedEvents[2].channel = "call"
  /\ derivedEvents[2].outcome = "no_answer"
  /\ derivedEvents[2].is_dial

\* The groups of the derived events under a grouping, and a group's name.
GroupsOf(grouping) ==
  {derivedEvents[i][KeyField(grouping)] : i \in DOMAIN derivedEvents} \ {""}

GroupName(grouping, id) ==
  IF grouping = "sdr" /\ \E i \in DOMAIN DatasetSdrs : DatasetSdrs[i].id = id
  THEN DatasetSdrs[CHOOSE i \in DOMAIN DatasetSdrs : DatasetSdrs[i].id = id].name
  ELSE id

\* Group a ranks before group b: more qualified leads, then more leads in the
\* first stage, then the earlier name.
RanksBefore(grouping, a, b) ==
  LET aQualified == Cardinality(LeadsWith(grouping, a, "is_qualified"))
      bQualified == Cardinality(LeadsWith(grouping, b, "is_qualified"))
      aFirst == Cardinality(LeadsOf(grouping, a))
      bFirst == Cardinality(LeadsOf(grouping, b))
  IN  \/ aQualified > bQualified
      \/ aQualified = bQualified /\ aFirst > bFirst
      \/ /\ aQualified = bQualified /\ aFirst = bFirst
         /\ CollationRank(GroupName(grouping, a)) < CollationRank(GroupName(grouping, b))

FirstFiveOf(grouping, funnels) ==
  /\ Len(funnels) <= 5
  /\ Len(funnels) = 5 \/ Len(funnels) = Cardinality(GroupsOf(grouping))
  /\ \A i \in DOMAIN funnels : funnels[i].id \in GroupsOf(grouping)
  /\ \A i, j \in DOMAIN funnels :
       i < j => RanksBefore(grouping, funnels[i].id, funnels[j].id)
  /\ \A g \in GroupsOf(grouping) \ {funnels[i].id : i \in DOMAIN funnels} :
       \A i \in DOMAIN funnels : RanksBefore(grouping, funnels[i].id, g)

\* C22: buildFunnels and buildEntityFunnels return at most 5 groups, the first
\* 5 of all groups ordered by qualified count descending, then by first-stage
\* count descending, then by name ascending: no omitted group ranks before a
\* returned one.
FunnelsAreFirstFive ==
  pc = "summarised" =>
    \A grouping \in GroupingKeys :
      /\ FirstFiveOf(grouping, TheSummaries.funnels[grouping])
      /\ FirstFiveOf(grouping, TheSummaries.entityFunnels[grouping])

\* Six companies with one qualified lead among them: the qualified company
\* comes first, the company with two leads second, the others by name, and
\* the last of them by name is omitted.
FunnelsAreFirstFiveWitness ==
  /\ pc = "summarised"
  /\ Cardinality(GroupsOf("company")) = 6
  /\ Len(TheSummaries.funnels.company) = 5
  /\ Len(TheSummaries.entityFunnels.company) = 5
  /\ TheSummaries.funnels.company[1].id = "Echo Group Logistics"
  /\ TheSummaries.funnels.company[1].stages[6].count = 1
  /\ TheSummaries.funnels.company[2].id = "North Labs SaaS"
  /\ TheSummaries.funnels.company[2].stages[1].count = 2
  /\ TheSummaries.funnels.company[3].id = "Apex Cloud Retail"
  /\ TheSummaries.funnels.company[5].id = "Cedar Data Media"
  /\ \A i \in 1..5 : TheSummaries.entityFunnels.company[i].id # "Delta Works Energy"

\* The event lies inside the date range: at or after its start, where a
\* date without a time starts at 00:00:00.000, and at or before its end,
\* where a date without a time ends at 23:59:59.999.
InsideRange(event, range) ==
  /\ range.start # Null =>
       \/ event.timestamp.day > range.start[1].day
       \/ /\ event.timestamp.day = range.start[1].day
          /\ "ms" \in DOMAIN range.start[1] => event.timestamp.ms >= range.start[1].ms
  /\ range.end # Null =>
       \/ event.timestamp.day < range.end[1].day
       \/ /\ event.timestamp.day = range.end[1].day
          /\ "ms" \in DOMAIN range.end[1] => event.timestamp.ms <= range.end[1].ms

FieldOfFilter ==
  [teams |-> "team", sdrs |-> "sdr_id", companies |-> "company",
   industries |-> "industry", channels |-> "channel"]

\* The event satisfies every one of the named filters that is active.
Satisfies(event, filters, names) ==
  \A name \in names :
    filters[name] # <<>> =>
      \E i \in DOMAIN filters[name] : filters[name][i] = event[FieldOfFilter[name]]

\* The sub-list of the derived events, in their order, that satisfy the named
\* filters and lie inside the date range.
Selected(state, names) ==
  SelectSeq(state.derivedEvents,
            LAMBDA event :
              Satisfies(event, state.filters, names) /\ InsideRange(event, state.dateRange))

CompaniesAlone(state) ==
  /\ state.filters.companies # <<>>
  /\ state.filters.teams = <<>> /\ state.filters.sdrs = <<>>
  /\ state.filters.industries = <<>> /\ state.filters.channels = <<>>
  /\ state.dateRange = [start |-> Null, end |-> Null]

\* C23 as stated: after every operation of the store its filteredEvents are
\* exactly the derived events, in their order, whose team, sdr_id, company,
\* industry and channel belong to the corresponding filter list whenever that
\* list is non-empty and whose timestamp lies inside the date range; a filter
\* on companies alone restricts filteredEvents to that company.
FilteredEventsSatisfyEveryFilter ==
  store # Null =>
    store.filteredEvents =
      Selected(store, {"teams", "sdrs", "companies", "industries", "channels"})

\* C23 (what the store does): the same, except that a filter on companies
\* with no other filter and no date range filters nothing.
FilteredEventsUnlessCompaniesAlone ==
  store # Null =>
    store.filteredEvents =
      Selected(store,
               IF CompaniesAlone(store)
               THEN {"teams", "sdrs", "industries", "channels"}
               ELSE {"teams", "sdrs", "companies", "industries", "channels"})

\* The company of the first funnel was clicked and nothing else is filtered:
\* the second event, of another company, is still among the filtered events.
FilteredEventsWitness ==
  /\ store # Null
  /\ caller = "none"
  /\ Len(store.derivedEvents) = 2
  /\ store.filters.companies = <<store.derivedEvents[1].company>>
  /\ CompaniesAlone(store)
  /\ store.derivedEvents[2].company # store.derivedEvents[1].company
  /\ store.filteredEvents = store.derivedEvents

\* The summaries without the time they were generated at.
ApartFromGeneratedAt(value) == [value EXCEPT !.generatedAt = <<>>]

\* C24 as stated: for every file that imports, the summaries
\* prepareDatasetFromCsv returns equal, apart from generatedAt, the summaries
\* built from the dataset the same call returns, whether or not the file
\* embeds a DASHBOARD_SUMMARY_JSON line.
SummariesAreRebuilt ==
  (pc = "prepared" /\ parsed[1].ok) =>
    ApartFromGeneratedAt(parsed[1].summaries)
      = ApartFromGeneratedAt(CsvSummaries(parsed[1].dataset))

\* C24 (what the import does): without a DASHBOARD_SUMMARY_JSON line the
\* summaries are built from the returned dataset; with one, the summaries
\* are the value of that line, whatever the dataset.
SummariesAreRebuiltOrEmbedded ==
  (pc = "prepared" /\ parsed[1].ok) =>
    IF \E l \in DOMAIN file[1].lead : startsWith(file[1].lead[l], <<"#", " ">> \o SUMMARY_PREFIX)
    THEN \E l \in DOMAIN file[1].lead :
           /\ startsWith(file[1].lead[l], <<"#", " ">> \o SUMMARY_PREFIX)
           /\ JsonStringify(parsed[1].summaries)
                = slice(file[1].lead[l], Len(SUMMARY_PREFIX) + 2)
    ELSE ApartFromGeneratedAt(parsed[1].summaries)
           = ApartFromGeneratedAt(CsvSummaries(parsed[1].dataset))

\* A file of two rows under the summary line of seed 42 and no seed line:
\* the dataset has the seed imported-dataset, the summaries the seed 42.
SummariesWitness ==
  /\ pc = "prepared"
  /\ parsed[1].ok
  /\ Len(parsed[1].dataset.events) = 2
  /\ file[1].lead = <<SummaryLine(<<"4", "2">>)>>
  /\ parsed[1].summaries.seed = <<"4", "2">>
  /\ parsed[1].dataset.seed # <<"4", "2">>

\* The dates of the running generateDataset call are a run of 14 to 21
\* consecutive days at 00:00 UTC, and every event generated so far falls on
\* one of them.
DatesAreARun ==
  /\ Len(frame.dates) \in 14..21
  /\ \A i \in DOMAIN frame.dates :
       frame.dates[i] = [day |-> frame.dates[1].day + i - 1, ms |-> 0]
  /\ \A e \in DOMAIN frame.events :
       /\ \E i \in DOMAIN frame.dates : frame.events[e].timestamp.day = frame.dates[i].day
       /\ frame.events[e].timestamp.ms \in 0..(MS_PER_DAY - 1)

DatesBuilt == frame # Null /\ pc \notin {"idle", "buildDateRange"} /\ frame.dates # <<>>

\* C25 as stated: the date range of the generator is a run of 14 to 21
\* consecutive UTC days whose first day is a Monday, and every generated
\* event falls on one of those days.  Day 0 is Monday 8 January 2024.
DateRangeStartsOnMonday ==
  DatesBuilt => DatesAreARun /\ frame.dates[1].day % 7 = 0

\* C25 (what the generator does): the run starts 0 to 14 days after Monday
\* 8 January 2024, on any day of the week.
DateRangeStartsWithinTwoWeeks ==
  DatesBuilt => DatesAreARun /\ frame.dates[1].day \in 0..14

\* A call whose dates start on a day that is not a Monday and that has
\* generated an event.
DateRangeWitness ==
  /\ DatesBuilt
  /\ frame.dates[1].day % 7 # 0
  /\ Len(frame.events) > 0
  /\ \E i \in DOMAIN frame.dates : frame.events[1].timestamp.day = frame.dates[i].day

\* The call of pickWeighted that returned: its options, the draw of its rng
\* as a 32-bit numerator over 2^32, and the position of the item it returned.
PickCall == returned[1]

PickDraw == mulberry32(PickCall.rng).value

PickedAt == CHOOSE i \in DOMAIN PickCall.options : PickCall.options[i].item = frame.picked[1]

\* The weights are quarters: the sum of the first i weights, in quarters.
RECURSIVE QuartersUpTo(_)
QuartersUpTo(i) ==
  IF i = 0 THEN 0
  ELSE QuartersUpTo(i - 1)
         + (PickCall.options[i].weight.num * 4) \div PickCall.options[i].weight.den

\* draw * sum(weights) <= the cumulative weight of option i, the draw being
\* (hi * 65536 + lo) / 2^32.
TargetReachedAt(i) ==
  LET total == QuartersUpTo(Len(PickCall.options))
      high == PickDraw.hi * total + (PickDraw.lo * total) \div 65536
      low == (PickDraw.lo * total) % 65536
  IN  \/ high < QuartersUpTo(i) * 65536
      \/ high = QuartersUpTo(i) * 65536 /\ low = 0

ReturnsFirstReached ==
  /\ frame.picked # Null
  /\ \E i \in DOMAIN PickCall.options : PickCall.options[i].item = frame.picked[1]
  /\ IF \E i \in DOMAIN PickCall.options : TargetReachedAt(i)
     THEN TargetReachedAt(PickedAt) /\ \A i \in 1..(PickedAt - 1) : ~TargetReachedAt(i)
     ELSE PickedAt = Len(PickCall.options)

\* C26 as stated: pickWeighted returns the first option, in the order given,
\* whose cumulative weight is >= rng() * sum(weights), and an option of weight
\* zero is returned only as the fallback when no cumulative weight reaches
\* the target, never while some option has positive weight and the target is
\* reached.
ZeroWeightOnlyAsFallback ==
  pc = "picked" =>
    /\ ReturnsFirstReached
    /\ PickCall.options[PickedAt].weight.num = 0 =>
         /\ \A i \in DOMAIN PickCall.options : ~TargetReachedAt(i)
         /\ ~(/\ \E i \in DOMAIN PickCall.options : PickCall.options[i].weight.num > 0
              /\ \E i \in DOMAIN PickCall.options : TargetReachedAt(i))

\* C26 (what pickWeighted does): it returns the first option whose cumulative
\* weight is >= rng() * sum(weights); an option of weight zero is returned
\* exactly when the draw is 0 or every weight is 0, and it is then the first
\* option.
ZeroWeightOnlyOnZeroTarget ==
  pc = "picked" =>
    /\ ReturnsFirstReached
    /\ PickCall.options[PickedAt].weight.num = 0 =>
         /\ PickedAt = 1
         /\ \/ PickDraw = Word(0, 0)
            \/ \A i \in DOMAIN PickCall.options : PickCall.options[i].weight.num = 0

\* The rng draws 0 and the first of three options has weight 0, the others
\* weight 1: the first option is returned.
ZeroWeightWitness ==
  /\ pc = "picked"
  /\ PickDraw = Word(0, 0)
  /\ Len(PickCall.options) = 3
  /\ PickCall.options[1].weight = Divide(0, 1)
  /\ PickCall.options[2].weight = Divide(1, 1)
  /\ PickCall.options[3].weight = Divide(1, 1)
  /\ frame.picked = Some("first")

\* The positions of the derived events of a lead.
EventsOfLead(lead) == {i \in DOMAIN derivedEvents : derivedEvents[i].lead_id = lead}

\* C27: for a list with unique event_ids, deriveEvents marks exactly one
\* event of every lead with is_first_contact and gives at most one event of
\* every lead a time_to_meeting_days that is not null, also when several
\* events of the lead have the same timestamp.
OneFirstContactPerLead ==
  pc = "derived" =>
    \A lead \in {derivedEvents[i].lead_id : i \in DOMAIN derivedEvents} :
      /\ Cardinality({i \in EventsOfLead(lead) : derivedEvents[i].is_first_contact}) = 1
      /\ Cardinality({i \in EventsOfLead(lead) :
                        derivedEvents[i].time_to_meeting_days # Null}) <= 1

\* Two meetings of one lead at the same time: the first in the list is the
\* first contact and has the time to meeting, the second has neither.
OneFirstContactPerLeadWitness ==
  /\ pc = "derived"
  /\ Len(derivedEvents) = 2
  /\ derivedEvents[1].event_id # derivedEvents[2].event_id
  /\ derivedEvents[1].lead_id = derivedEvents[2].lead_id
  /\ derivedEvents[1].timestamp = derivedEvents[2].timestamp
  /\ derivedEvents[1].outcome = "meeting_held" /\ derivedEvents[2].outcome = "qualified"
  /\ derivedEvents[1].is_first_contact /\ ~derivedEvents[2].is_first_contact
  /\ derivedEvents[1].time_to_meeting_days = Some([num |-> 0, den |-> 1])
  /\ derivedEvents[2].time_to_meeting_days = Null

\* A rate summary counts a part of what its denominator counts, and its
\* rate, when there is one, lies between 0 and 1.
WithinUnit(r) ==
  /\ 0 <= r.numerator /\ r.numerator <= r.denominator
  /\ r.rate # Null =>
       r.rate[1].den > 0 /\ 0 <= r.rate[1].num /\ r.rate[1].num <= r.rate[1].den

\* A breakdown of the Pipeline Health tab: its value is the rate as a
\* percentage.
WithinHundred(b) ==
  /\ 0 <= b.numerator /\ b.numerator <= b.denominator
  /\ b.value # Null =>
       b.value[1].den > 0 /\ 0 <= b.value[1].num /\ b.value[1].num <= 100 * b.value[1].den

\* C28: on the events deriveEvents returns, and on the events of each team
\* and of each SDR among them, each rate has 0 <= numerator <= denominator,
\* every rate that is not null lies in [0, 1] (as a percentage, in
\* [0, 100]), and every pipeline health score lies in 0..100.
RatesAndScoresWithinBounds ==
  /\ pc \in {"summarised", "rendered"} =>
       /\ \A k \in {"dialToConnect", "connectToConversation", "meetingToQualified",
                     "noShow"} :
            WithinUnit(TheSummaries.kpis[k])
       /\ \A t \in DOMAIN TheSummaries.pipelineHealth.topTeams :
            /\ TheSummaries.pipelineHealth.topTeams[t].score \in 0..100
            /\ \A c \in DOMAIN TheSummaries.pipelineHealth.topTeams[t].components :
                 WithinUnit(TheSummaries.pipelineHealth.topTeams[t].components[c])
  /\ pc = "rendered" =>
       /\ TheView.overallScore # Null => TheView.overallScore[1] \in 0..100
       /\ \A c \in DOMAIN TheView.overallBreakdowns :
            WithinHundred(TheView.overallBreakdowns[c])
       /\ \A e \in DOMAIN TheView.teamEntities :
            /\ TheView.teamEntities[e].score \in 0..100
            /\ \A c \in DOMAIN TheView.teamEntities[e].components :
                 WithinHundred(TheView.teamEntities[e].components[c])
       /\ \A e \in DOMAIN TheView.sdrEntities :
            /\ TheView.sdrEntities[e].score \in 0..100
            /\ \A c \in DOMAIN TheView.sdrEntities[e].components :
                 WithinHundred(TheView.sdrEntities[e].components[c])

\* A no-show, a meeting held and a meeting qualified, all called, and an
\* email without answer: one no-show of three meetings booked, one meeting
\* qualified of two held, and a score of 83 for the whole and for the team
\* that called.
RatesAndScoresWitness ==
  /\ pc = "rendered"
  /\ Len(derivedEvents) = 4
  /\ TheSummaries.kpis.noShow.numerator = 1
  /\ TheSummaries.kpis.noShow.denominator = 3
  /\ TheSummaries.kpis.dialToConnect.rate = Some([num |-> 1, den |-> 1])
  /\ TheSummaries.kpis.meetingToQualified.rate = Some([num |-> 1, den |-> 2])
  /\ TheView.overallScore = Some(83)
  /\ Len(TheView.teamEntities) = 1
  /\ TheView.teamEntities[1].score = 83

\* The tab selected for a hash that names no tab: the default tab, or the
\* first tab when the default is no tab.
FallbackTab ==
  IF \E i \in DOMAIN tabs : tabs[i] = defaultTab THEN defaultTab ELSE tabs[1]

\* C29: with a non-empty tab list, after the mount and after every click of
\* a tab and every hashchange event, activeTab is the id of one of the tabs
\* and the hash of the URL is "#" and activeTab; a hashchange to an empty or
\* unknown hash selects the default tab, or the first tab if the default is
\* no tab, and rewrites the hash to it.
HashFollowsActiveTab ==
  [][/\ pc' = "idle" =>
          /\ activeTab' # Null
          /\ \E i \in DOMAIN tabs : tabs[i] = activeTab'[1]
          /\ hash' = <<"#">> \o activeTab'[1]
     /\ (pc = "hashchange" /\ pc' = "idle"
           /\ ~\E i \in DOMAIN tabs : hash = <<"#">> \o tabs[i]) =>
          /\ activeTab' = Some(FallbackTab)
          /\ hash' = <<"#">> \o FallbackTab]_vars

\* The hash was changed to one that names no tab while the tab no-show was
\* active and the default is no tab: the first tab is active and in the hash.
HashFollowsActiveTabWitness ==
  /\ pc = "idle"
  /\ tabs = <<<<"funnels">>, <<"leadership">>, <<"no-show">>>>
  /\ defaultTab = <<"overview">>
  /\ activeTab = Some(<<"funnels">>)
  /\ hash = <<"#", "funnels">>

\* The ids of the series, and the ids selected, as sets.
SeriesIds == {series[i].id : i \in DOMAIN series}

SelectedIds == {selectedSdrs[i] : i \in DOMAIN selectedSdrs}

\* C30: the selection never holds more than 3 ids and, once the effect on
\* the series has run, only ids of the current series; toggling an SDR that
\* is not selected while 3 are selected leaves the selection as it is; and
\* when the series has none of the ids selected before, the selection
\* becomes the first up to 3 ids of the series.
SelectionWithinSeries ==
  [][/\ Len(selectedSdrs') <= 3
     /\ pc' = "idle" => \A i \in DOMAIN selectedSdrs' : selectedSdrs'[i] \in SeriesIds'
     /\ (pc = "idle" /\ pc' = "idle" /\ Len(selectedSdrs) = 3
           /\ series' = series /\ selectedSdrs' # selectedSdrs) =>
          /\ Len(selectedSdrs') = 2
          /\ SelectedIds' \subseteq SelectedIds
     /\ (pc = "effect" /\ pc' = "idle" /\ SelectedIds \cap SeriesIds = {}) =>
          /\ Len(selectedSdrs') = (IF Len(series) < 3 THEN Len(series) ELSE 3)
          /\ \A i \in DOMAIN selectedSdrs' : selectedSdrs'[i] = series[i].id
     /\ (pc = "effect" /\ pc' = "idle" /\ SelectedIds \cap SeriesIds # {}) =>
          SelectedIds' = SelectedIds \cap SeriesIds]_vars

\* Three SDRs are selected and the series has a fourth, which is not
\* selected.
SelectionWitness ==
  /\ pc = "idle"
  /\ Len(series) = 4
  /\ Len(selectedSdrs) = 3
  /\ "sdr_4" \notin SelectedIds
  /\ selectedSdrs[1] = "sdr_3"

====
